---- MODULE Spec2Model ----
(***************************************************************************)
(* A model of the triangle-splatting container loader:                     *)
(*   - the format detector          (formats/detectFormat)                 *)
(*   - the container parser         (formats/containerParser)              *)
(*   - the format loader            (formatLoader)                         *)
(*   - the tensor utilities         (utils/tensorUtils)                    *)
(*   - the semantic resolver        (semantics/resolveSemantics)           *)
(*   - the viewer and its renderers (viewer, renderers)                    *)
(* Each subsystem has its own specification over the shared variables; the *)
(* variables a specification does not use stay at their idle values.       *)
(***************************************************************************)
EXTENDS Integers, Sequences, FiniteSets, TLC

VARIABLES
  pstage,    \* parseContainer: "idle", "toc" (inside the TOC loop), "returned", "failed"
  pin,       \* the call's arguments: the expected format and what the fixed header and the JSON header hold
  pread,     \* the TOC entries read so far, each with the tensor definition of its index
  ptensors,  \* the `tensors` object under construction: <<name, record>> in insertion order
  pout,      \* the outcome: the thrown error, or the returned ParsedModel
  sstage,    \* sanitizeFiniteInPlace: "idle", "loop", "done"
  sin,       \* the Float32Array as it was passed in
  svalues,   \* the Float32Array as it is now
  si,        \* the loop index i
  sreplaced, \* the counter `replaced`, returned at the end
  dstage,    \* detectFormat: "idle", "done"
  dorig,     \* the bytes of the buffer when detectFormat was called
  dbuf,      \* the bytes of the buffer now
  dout,      \* what detectFormat returned or threw
  heap,      \* the typed arrays in memory: a reference is an index into it
  heap0,     \* the typed arrays as they were before the first call of resolveSemantics
  rmodel,    \* the ParsedModel's `tensors` object handed to resolveSemantics; `data` is a reference
  rcalls,    \* the calls of resolveSemantics made so far: options and outcome
  estage,    \* the round trip: "idle", "given", "encoded" or "parsed"
  ein,       \* the tensors to encode and the length the JSON header is given
  eenc,      \* the container the encoder wrote: buffer, TOC entries and definitions
  eout,      \* what parseContainer returned or threw for that container
  hstage,    \* float16ToFloat32: "idle", "done"
  hin,       \* the 16-bit pattern passed in
  hout,      \* the number returned, as the Float32Array element it is stored in
  vmodel,    \* the viewer: this.modelData, or null before a file has been parsed
  vsemantic, \* this.semanticData, or null before a model has been resolved
  vselect,   \* the value of the render-mode select element
  vsettings, \* this.splatSettings, in hundredths
  vscene,    \* the renderables' objects in this.scene (the lights are left out)
  vrenderable, \* this.renderable
  vstats,    \* this.stats.triangles and this.stats.points
  vloading,  \* the loading overlay: shown or hidden, and its text
  vstatus,   \* the status line
  vloads,    \* the calls of loadFile so far, one per file selected: how each ended
  vbuilt,    \* the renderables built so far; the next one's identity
  vlast,     \* the handler that ran last, and how its call of applyRenderMode ended
  vdisposed, \* the renderables disposed of so far
  vops,      \* what the handler that ran last did to the scene and to renderables, in order
  lstage,    \* FormatLoader.parse: idle or done
  lin,       \* the buffer handed to FormatLoader.parse
  lout       \* what detectFormat gave and what the call ended with

pvars == <<pstage, pin, pread, ptensors, pout>>
svars == <<sstage, sin, svalues, si, sreplaced>>
dvars == <<dstage, dorig, dbuf, dout>>
rvars == <<heap, heap0, rmodel, rcalls>>
evars == <<estage, ein, eenc, eout>>
hvars == <<hstage, hin, hout>>
vvars == <<vmodel, vsemantic, vselect, vsettings, vscene, vrenderable, vstats, vloading, vstatus, vloads, vbuilt, vlast, vdisposed, vops>>
lvars == <<lstage, lin, lout>>

vars == <<pvars, svars, dvars, rvars, evars, hvars, vvars, lvars>>

\* The variables of the other subsystems.
notParse == <<svars, dvars, rvars, evars, hvars, vvars, lvars>>
notSanitize == <<pvars, dvars, rvars, evars, hvars, vvars, lvars>>
notDetect == <<pvars, svars, rvars, evars, hvars, vvars, lvars>>
notResolve == <<pvars, svars, dvars, evars, hvars, vvars, lvars>>
notRoundTrip == <<pvars, svars, dvars, rvars, hvars, vvars, lvars>>
notHalf == <<pvars, svars, dvars, rvars, evars, vvars, lvars>>
notViewer == <<pvars, svars, dvars, rvars, evars, hvars, lvars>>
notLoader == <<pvars, svars, dvars, rvars, evars, hvars, vvars>>

(***************************************************************************)
(* Bounds of the model.                                                    *)
(***************************************************************************)
\* Width in bits of the stand-in for the TOC's unsigned 64-bit fields.
U64Bits == 10
\* Significand width of the stand-in for the IEEE double a JS number is.
\* Every buffer length of the model is below 2^MantissaBits, as every
\* ArrayBuffer length is below 2^53.
MantissaBits == 8
\* The largest data section of a modelled buffer, in bytes.
MaxData == 8
\* The most TOC entries of a modelled buffer.
MaxEntries == 2
\* The shortest JSON header of the model that holds a tensors array: long
\* enough for the text of MaxEntries + 1 definitions; longer headers pad
\* the text with white space.
MinHeaderLen == 90
\* How many more bytes than MinHeaderLen a modelled JSON header may have
\* (so that the data section starts at every alignment).
MaxHeaderPad == 3

(***************************************************************************)
(* Numbers.  A JS number is a double: integers convert to it by rounding   *)
(* to the nearest representable value (ties to even), and + rounds its     *)
(* exact result the same way.  Nothing wraps.                              *)
(***************************************************************************)
RECURSIVE Pow2(_)
Pow2(n) == IF n <= 0 THEN 1 ELSE 2 * Pow2(n - 1)

RECURSIVE BitLength(_)
BitLength(x) == IF x <= 0 THEN 0 ELSE 1 + BitLength(x \div 2)

U64Max == Pow2(U64Bits) - 1

\* Number(x) of a non-negative BigInt x.
ToNumber(x) ==
  IF BitLength(x) <= MantissaBits THEN x
  ELSE LET ulp == Pow2(BitLength(x) - MantissaBits)
           q   == x \div ulp
           r   == x % ulp
       IN  IF 2 * r < ulp THEN q * ulp
           ELSE IF 2 * r > ulp THEN (q + 1) * ulp
           ELSE IF q % 2 = 0 THEN q * ulp ELSE (q + 1) * ulp

\* a + b of two non-negative integral JS numbers, wrapping at the width of
\* the TOC fields as fixed-width unsigned arithmetic would.
NumAddWrapping(a, b) == (a + b) % Pow2(U64Bits)

\* a + b of two non-negative integral JS numbers.
NumAdd(a, b) == ToNumber(a + b)

(***************************************************************************)
(* formats/containerParser: constants and helpers.                         *)
(***************************************************************************)
FILE_HEADER_SIZE == 32
TOC_ENTRY_SIZE == 32

\* DTYPE_CODE_TO_NAME[code]; "undefined" when the table has no such key.
DTYPE_CODE_TO_NAME(code) ==
  CASE code = 1 -> "f16"
    [] code = 2 -> "f32"
    [] code = 3 -> "u8"
    [] code = 4 -> "i32"
    [] code = 5 -> "i64"
    [] OTHER -> "undefined"

DTYPE_BYTES(dtype) ==
  CASE dtype = "f16" -> 2
    [] dtype = "f32" -> 4
    [] dtype = "u8" -> 1
    [] dtype = "i32" -> 4
    [] dtype = "i64" -> 8

\* A shape dimension after Number(dim): an integer, or a number that is not
\* one (1.5, NaN).
IntDim(n) == [isInt |-> TRUE, v |-> n]
NonIntDim == [isInt |-> FALSE, v |-> 0]

RECURSIVE ProductOfDims(_)
ProductOfDims(shape) ==
  IF shape = <<>> THEN 1 ELSE Head(shape).v * ProductOfDims(Tail(shape))

\* product(shape): 0 for an empty shape, a throw for a dimension that is not
\* a non-negative integer, the product of the dimensions otherwise.
product(shape) ==
  IF Len(shape) = 0 THEN [threw |-> FALSE, value |-> 0]
  ELSE IF \E k \in 1..Len(shape) : ~shape[k].isInt \/ shape[k].v < 0
       THEN [threw |-> TRUE, value |-> 0]
       ELSE [threw |-> FALSE, value |-> ProductOfDims(shape)]

(***************************************************************************)
(* Typed arrays.  A typed array is [cls, elems].  An element is what the   *)
(* little-endian reinterpretation of its bytes gives:                      *)
(*   Uint8Array     the byte                                               *)
(*   Int32Array     the two's-complement integer                           *)
(*   BigInt64Array  [hi, mid, lo]: the integer hi * 2^32 + mid * 2^16 + lo *)
(*   Float32Array   [sign, exp, frac]: the IEEE-754 binary32 fields        *)
(***************************************************************************)
Bytes == 0..255

U16LE(b) == b[1] + 256 * b[2]

S32LE(b) ==
  b[1] + 256 * b[2] + 65536 * b[3]
    + 16777216 * (IF b[4] >= 128 THEN b[4] - 256 ELSE b[4])

I64LE(b) ==
  [hi  |-> S32LE(<<b[5], b[6], b[7], b[8]>>),
   mid |-> U16LE(<<b[3], b[4]>>),
   lo  |-> U16LE(<<b[1], b[2]>>)]

F32LE(b) ==
  [sign |-> b[4] \div 128,
   exp  |-> (b[4] % 128) * 2 + b[3] \div 128,
   frac |-> (b[3] % 128) * 65536 + b[2] * 256 + b[1]]

\* The binary32 value sign * 2^e * (1 + m / 1024).
F32OfHalfNormal(sign, e, m) == [sign |-> sign, exp |-> e + 127, frac |-> m * 8192]

\* The binary32 value sign * 2^-14 * (m / 1024) of a half subnormal, m > 0:
\* normalised, it is 2^(BitLength(m) - 25) * (1 + rest / 2^(BitLength(m) - 1)).
F32OfHalfSubnormal(sign, m) ==
  LET top == BitLength(m) - 1
  IN  [sign |-> sign,
       exp  |-> top - 24 + 127,
       frac |-> (m - Pow2(top)) * Pow2(23 - top)]

\* float16ToFloat32 without the saturation of exponent field 31: the
\* pattern read as an ordinary exponent.
float16ToFloat32Unsaturated(fp16) ==
  LET sign     == (fp16 \div 32768) % 2
      exponent == (fp16 \div 1024) % 32
      fraction == fp16 % 1024
  IN  IF exponent = 0
      THEN IF fraction = 0 THEN [sign |-> 0, exp |-> 0, frac |-> 0]
           ELSE F32OfHalfSubnormal(sign, fraction)
      ELSE F32OfHalfNormal(sign, exponent - 15, fraction)

\* float16ToFloat32(fp16), stored into a Float32Array.
float16ToFloat32(fp16) ==
  LET sign     == (fp16 \div 32768) % 2
      exponent == (fp16 \div 1024) % 32
      fraction == fp16 % 1024
  IN  IF exponent = 0
      THEN IF fraction = 0 THEN [sign |-> 0, exp |-> 0, frac |-> 0]
           ELSE F32OfHalfSubnormal(sign, fraction)
      ELSE IF exponent = 31
      THEN F32OfHalfNormal(sign, 15, 1023)        \* +-65504
      ELSE F32OfHalfNormal(sign, exponent - 15, fraction)

\* The elements of `packed` taken `width` bytes at a time.
Chunks(packed, width) ==
  [k \in 1..(Len(packed) \div width) |->
     [j \in 1..width |-> packed[(k - 1) * width + j]]]

\* new XArray(packed) for a 0-based buffer whose length is a multiple of the
\* element size.
TypedArrayOf(dtype, packed) ==
  CASE dtype = "f32" ->
         [cls |-> "Float32Array",
          elems |-> [k \in 1..(Len(packed) \div 4) |-> F32LE(Chunks(packed, 4)[k])]]
    [] dtype = "f16" ->
         [cls |-> "Float32Array",
          elems |-> [k \in 1..(Len(packed) \div 2) |->
                       float16ToFloat32(U16LE(Chunks(packed, 2)[k]))]]
    [] dtype = "u8" ->
         [cls |-> "Uint8Array", elems |-> packed]
    [] dtype = "i32" ->
         [cls |-> "Int32Array",
          elems |-> [k \in 1..(Len(packed) \div 4) |-> S32LE(Chunks(packed, 4)[k])]]
    [] dtype = "i64" ->
         [cls |-> "BigInt64Array",
          elems |-> [k \in 1..(Len(packed) \div 8) |-> I64LE(Chunks(packed, 8)[k])]]

(***************************************************************************)
(* A buffer, as parseContainer reads it:                                   *)
(*   len        byteLength                                                 *)
(*   magic      bytes 0..3 as a string                                     *)
(*   version, headerLen, tocLen   the u32 fields at 4, 8, 12               *)
(*   json       what JSON.parse gives for the headerLen bytes at 32:       *)
(*              kind "bad" (it throws), "falsy" (null, 0, false, ""),      *)
(*              "noarray" (a value whose .tensors is no array), or         *)
(*              "array" with n = header.tensors.length                     *)
(*   data       the bytes from 32 + headerLen + tocLen to the end          *)
(* The TOC entries and the tensor definitions are read one per iteration   *)
(* of the TOC loop.                                                        *)
(***************************************************************************)
\* The byte at absolute offset a, for an offset inside the buffer; the bytes
\* before the data section are the headers and the TOC, not modelled bytewise.
BufferByte(buf, a) ==
  LET k == a - (FILE_HEADER_SIZE + buf.headerLen + buf.tocLen) + 1
  IN  IF k >= 1 /\ k <= Len(buf.data) THEN buf.data[k] ELSE 0

\* readTypedTensor(buffer, absoluteOffset, nbytes, dtype).  The Uint8Array
\* view throws a RangeError outside the buffer; the copy `packed` is 0-based,
\* and a typed-array constructor throws a RangeError for a byte length that
\* is no multiple of its element size.
readTypedTensor(buf, absoluteOffset, nbytes, dtype) ==
  IF absoluteOffset > buf.len \/ absoluteOffset + nbytes > buf.len
  THEN [threw |-> TRUE, data |-> <<>>]
  ELSE IF nbytes % DTYPE_BYTES(dtype) # 0
  THEN [threw |-> TRUE, data |-> <<>>]
  ELSE LET packed == [k \in 1..nbytes |-> BufferByte(buf, absoluteOffset + k - 1)]
       IN  [threw |-> FALSE, data |-> TypedArrayOf(dtype, packed)]

(***************************************************************************)
(* formats/containerParser: parseContainer.                                *)
(***************************************************************************)
Thrown(error, at) == [kind |-> "error", error |-> error, at |-> at]

\* Lines 98-154 with the checks in another order: the header + TOC size
\* check ahead of the TOC length check.
ParseHeaderOverflowFirst(buf, expectedFormat) ==
  LET dataSectionStart == FILE_HEADER_SIZE + buf.headerLen + buf.tocLen
      tensorCount      == buf.tocLen \div TOC_ENTRY_SIZE
  IN  IF buf.len < FILE_HEADER_SIZE THEN "BufferTooSmall"
      ELSE IF buf.magic # expectedFormat THEN "BadMagic"
      ELSE IF dataSectionStart > buf.len THEN "HeaderTOCOverflow"
      ELSE IF buf.tocLen % TOC_ENTRY_SIZE # 0 THEN "InvalidTOCLength"
      ELSE IF buf.json.kind = "bad" THEN "InvalidHeader:json"
      ELSE IF buf.json.kind \in {"falsy", "noarray"} THEN "InvalidHeader:tensors"
      ELSE IF buf.json.n < tensorCount THEN "HeaderTensorCountMismatch"
      ELSE "ok"

\* Lines 98-154: the checks of the fixed header and of the JSON header, in
\* the code's order.  "ok", or the error thrown.
ParseHeader(buf, expectedFormat) ==
  LET dataSectionStart == FILE_HEADER_SIZE + buf.headerLen + buf.tocLen
      tensorCount      == buf.tocLen \div TOC_ENTRY_SIZE
  IN  IF buf.len < FILE_HEADER_SIZE THEN "BufferTooSmall"
      ELSE IF buf.magic # expectedFormat THEN "BadMagic"
      ELSE IF buf.tocLen % TOC_ENTRY_SIZE # 0 THEN "InvalidTOCLength"
      ELSE IF dataSectionStart > buf.len THEN "HeaderTOCOverflow"
      ELSE IF buf.json.kind = "bad" THEN "InvalidHeader:json"
      ELSE IF buf.json.kind \in {"falsy", "noarray"} THEN "InvalidHeader:tensors"
      ELSE IF buf.json.n < tensorCount THEN "HeaderTensorCountMismatch"
      ELSE "ok"

\* A tensor definition header.tensors[i] is [hasName, name, hasShape, shape]:
\* shape holds the dimensions after .map(Number); null and {} have neither.
TensorPlaceholder(i) == "tensor_" \o ToString(i)

\* Lines 190-198: whether the shape's element count contradicts nbytes.
SizeCheckFails(shape, dtype, nbytes) ==
  LET elemCountFromShape == product(shape).value
  IN  /\ elemCountFromShape > 0
      /\ elemCountFromShape * DTYPE_BYTES(dtype) # nbytes

\* Lines 159-201: one iteration of the TOC loop, for the entry
\* [relOffset, nbytes, dtypeCode] at TOC index i and the definition def.
\* The error thrown, or the record stored under `name`; next to data, shape
\* and dtype the record notes the byte range its data was read from.
ParseTocEntry(buf, i, entry, def) ==
  LET dataSectionStart == FILE_HEADER_SIZE + buf.headerLen + buf.tocLen
      relOffset == ToNumber(entry.relOffset)
      nbytes    == ToNumber(entry.nbytes)
      dtype     == DTYPE_CODE_TO_NAME(entry.dtypeCode)
      name      == IF def.hasName THEN def.name ELSE TensorPlaceholder(i)
      shape     == IF def.hasShape THEN def.shape ELSE <<>>
      absOffset == NumAdd(dataSectionStart, relOffset)
  IN  IF dtype = "undefined" THEN Thrown("UnknownDType", i)
      ELSE IF relOffset < 0 \/ nbytes < 0 \/ NumAdd(absOffset, nbytes) > buf.len
      THEN Thrown("InvalidTensorBounds", i)
      ELSE IF product(shape).threw THEN Thrown("InvalidShapeDimension", i)
      ELSE IF SizeCheckFails(shape, dtype, nbytes) THEN Thrown("SizeMismatch", i)
      ELSE LET read == readTypedTensor(buf, absOffset, nbytes, dtype)
           IN  IF read.threw THEN Thrown("RangeError", i)
               ELSE [kind |-> "tensor", name |-> name,
                     record |-> [data |-> read.data, shape |-> shape, dtype |-> dtype,
                                 absOffset |-> absOffset, nbytes |-> nbytes]]

\* tensors[name] = record on an object literal held as [name, record] pairs
\* in insertion order: an existing key keeps its place.  Assigning an object
\* to the key "__proto__" runs the setter inherited from Object.prototype,
\* which replaces the object's prototype and creates no property.
ObjectSet(obj, name, record) ==
  IF name = "__proto__" THEN obj
  ELSE IF \E k \in 1..Len(obj) : obj[k].name = name
  THEN [k \in 1..Len(obj) |->
          IF obj[k].name = name THEN [obj[k] EXCEPT !.record = record] ELSE obj[k]]
  ELSE Append(obj, [name |-> name, record |-> record])

\* Names that are canonical array indices, with their values.
IndexKeys == {"7", "3"}
IndexKeyValue(name) == IF name = "7" THEN 7 ELSE 3

RECURSIVE SortedIndexKeys(_)
SortedIndexKeys(S) ==
  IF S = {} THEN <<>>
  ELSE LET least == CHOOSE n \in S : \A m \in S : IndexKeyValue(n) <= IndexKeyValue(m)
       IN  <<least>> \o SortedIndexKeys(S \ {least})

\* Object.keys(obj): the array-index keys in ascending numeric order, then
\* the other keys in insertion order.
ObjectKeys(obj) ==
  LET names == [k \in 1..Len(obj) |-> obj[k].name]
  IN  SortedIndexKeys({names[k] : k \in 1..Len(names)} \cap IndexKeys)
        \o SelectSeq(names, LAMBDA n : n \notin IndexKeys)

\* obj[name], for a key the object has.
ObjectGet(obj, name) == obj[CHOOSE k \in 1..Len(obj) : obj[k].name = name].record

\* Lines 204-216: the ParsedModel returned after the loop.  header.tensors
\* is given by the definitions read.
ParsedModelOf(buf, expectedFormat, defs, tensors) ==
  LET format == IF expectedFormat = "TGSP" THEN "TGSP" ELSE "TSGD"
  IN  [kind |-> "model",
       format |-> format,
       version |-> buf.version,
       header |-> defs,
       tensors |-> tensors,
       metadata |-> [format |-> format,
                     version |-> buf.version,
                     tensorCount |-> buf.tocLen \div TOC_ENTRY_SIZE,
                     names |-> ObjectKeys(tensors),
                     dataSectionStart |-> FILE_HEADER_SIZE + buf.headerLen + buf.tocLen]]

\* Lines 159-202: the TOC loop from index i on, over the entries and the
\* definitions of the buffer.  The error thrown, or the tensors object.
RECURSIVE ParseTocFrom(_, _, _, _, _)
ParseTocFrom(buf, toc, defs, i, tensors) ==
  IF i >= buf.tocLen \div TOC_ENTRY_SIZE THEN [kind |-> "tensors", tensors |-> tensors]
  ELSE LET got == ParseTocEntry(buf, i, toc[i + 1], defs[i + 1])
       IN  IF got.kind = "error" THEN got
           ELSE ParseTocFrom(buf, toc, defs, i + 1,
                             ObjectSet(tensors, got.name, got.record))

\* parseContainer(buffer, expectedFormat) as one call, for a buffer given
\* with its TOC entries and its tensor definitions.
parseContainer(buf, toc, defs, expectedFormat) ==
  LET checked == ParseHeader(buf, expectedFormat)
      looped  == ParseTocFrom(buf, toc, defs, 0, <<>>)
  IN  IF checked # "ok" THEN Thrown(checked, -1)
      ELSE IF looped.kind = "error" THEN looped
      ELSE ParsedModelOf(buf, expectedFormat, defs, looped.tensors)

(***************************************************************************)
(* The inputs of the parser's specification.                               *)
(***************************************************************************)
Formats == {"TGSP", "TSGD", "TGSD"}
Magics == Formats \cup {"glTF"}

HeaderLens == {0, 2} \cup {MinHeaderLen + k : k \in 0..MaxHeaderPad}

TocLens ==
  {TOC_ENTRY_SIZE * k : k \in 0..MaxEntries}
    \cup {TOC_ENTRY_SIZE - 1, TOC_ENTRY_SIZE + 1}

\* What the headerLen bytes at 32 can parse to: the empty text is no JSON,
\* and a tensors array needs the room of its text.
JsonValues(headerLen) ==
  {[kind |-> "bad", n |-> 0]}
    \cup (IF headerLen >= 1
          THEN {[kind |-> "falsy", n |-> 0], [kind |-> "noarray", n |-> 0]}
          ELSE {})
    \cup (IF headerLen >= MinHeaderLen
          THEN {[kind |-> "array", n |-> n] : n \in 0..(MaxEntries + 1)}
          ELSE {})

\* The byte at place k of a modelled data section.
FillByte(k) == (k * 89 + 166) % 256

DataSizes == {0, MaxData \div 2, MaxData}

\* The buffers of at least FILE_HEADER_SIZE bytes: the data section has one
\* of the DataSizes, or the buffer ends one byte short of it, or right after
\* the JSON header.
LongBuffers ==
  { [len |-> len, magic |-> magic, version |-> 1, headerLen |-> h, tocLen |-> t,
     json |-> j,
     data |-> [k \in 1..(len - (FILE_HEADER_SIZE + h + t)) |-> FillByte(k)]] :
      <<h, t, len, magic, j>> \in
        UNION { UNION { UNION { UNION {
          { <<h, t, len, magic, j>> :
              j \in IF FILE_HEADER_SIZE + h <= len
                    THEN JsonValues(h) ELSE {[kind |-> "bad", n |-> 0]} }
          : magic \in Magics }
          : len \in {FILE_HEADER_SIZE + h + t + d : d \in DataSizes \cup {-1}}
                      \cup {FILE_HEADER_SIZE + h} }
          : t \in TocLens }
          : h \in HeaderLens } }

\* The buffers too short for the fixed header: nothing but the magic, if
\* that, can be read from them.
ShortBuffers ==
  { [len |-> len, magic |-> magic, version |-> 0, headerLen |-> 0, tocLen |-> 0,
     json |-> [kind |-> "bad", n |-> 0], data |-> <<>>] :
      <<len, magic>> \in
        ({0, 3} \X {""}) \cup ({4, FILE_HEADER_SIZE - 1} \X Magics) }

Buffers == ShortBuffers \cup LongBuffers

\* Stand-ins for large unsigned 64-bit values: one past the exactly
\* representable integers, the largest value, and the value that added to
\* the data section start gives 2^U64Bits.
BigValues(buf) ==
  {Pow2(MantissaBits) + 1, U64Max,
   Pow2(U64Bits) - (FILE_HEADER_SIZE + buf.headerLen + buf.tocLen)}

Shapes ==
  {<<>>, <<IntDim(0)>>, <<IntDim(1)>>, <<IntDim(2)>>, <<IntDim(2), IntDim(2)>>,
   <<IntDim(-1)>>, <<NonIntDim>>, <<IntDim(0), NonIntDim>>}

NoDef == [hasName |-> FALSE, name |-> "", hasShape |-> FALSE, shape |-> <<>>]

Defs(names, shapes) ==
  {NoDef}
    \cup {[hasName |-> TRUE, name |-> n, hasShape |-> FALSE, shape |-> <<>>] : n \in names}
    \cup {[hasName |-> FALSE, name |-> "", hasShape |-> TRUE, shape |-> sh] : sh \in shapes}
    \cup {[hasName |-> TRUE, name |-> n, hasShape |-> TRUE, shape |-> sh] :
            n \in names, sh \in shapes}

Entries(relOffsets, sizes, codes) ==
  {[relOffset |-> r, nbytes |-> n, dtypeCode |-> c] :
     r \in relOffsets, n \in sizes, c \in codes}

\* The buffers whose TOC is explored widely: TGSP buffers with the shortest
\* header, the largest data section and as many definitions as TOC entries.
WideToc(buf, expectedFormat) ==
  /\ expectedFormat = "TGSP"
  /\ buf.headerLen = MinHeaderLen
  /\ Len(buf.data) = MaxData
  /\ buf.json.n = buf.tocLen \div TOC_ENTRY_SIZE

\* What a TOC entry and its definition may hold: everything of a wide range
\* for the only entry of a WideToc buffer, a range that still has every
\* outcome for the entries of a WideToc buffer with more entries, and a
\* passing and a failing entry for the other buffers.
EntryInputs(buf, expectedFormat) ==
  IF WideToc(buf, expectedFormat) /\ buf.tocLen = TOC_ENTRY_SIZE
  THEN Entries({0, 1, 4} \cup BigValues(buf), {0, 2, 3, 4, 8} \cup BigValues(buf), 0..6)
         \X Defs({"a"}, Shapes)
  ELSE IF WideToc(buf, expectedFormat)
  THEN Entries({0, 4}, {0, 4}, {0, 2, 3})
         \X Defs({"a", "b", "7", "__proto__"}, {<<IntDim(1)>>})
  ELSE Entries({0}, {0, MaxData \div 2}, {0, 3}) \X {NoDef}

(***************************************************************************)
(* The parser's specification: one call of parseContainer, the TOC loop    *)
(* taken one iteration at a time.                                          *)
(***************************************************************************)
NoOutcome == [kind |-> "none"]

IdleParse ==
  /\ pstage = "idle"
  /\ pin = [expected |-> "", buf |-> CHOOSE b \in ShortBuffers : b.len = 0]
  /\ pread = <<>>
  /\ ptensors = <<>>
  /\ pout = NoOutcome

\* parseContainer(buffer, expectedFormat) up to the TOC loop.
ParseBegin ==
  /\ pstage = "idle"
  /\ \E buf \in Buffers, expectedFormat \in Formats :
       LET checked == ParseHeader(buf, expectedFormat)
       IN  /\ pin' = [expected |-> expectedFormat, buf |-> buf]
           /\ pstage' = IF checked = "ok" THEN "toc" ELSE "failed"
           /\ pout' = IF checked = "ok" THEN NoOutcome ELSE Thrown(checked, -1)
  /\ UNCHANGED <<pread, ptensors>>
  /\ UNCHANGED notParse

\* One iteration of the TOC loop: the entry and the definition at index
\* Len(pread) are read from the buffer.
ParseEntry ==
  /\ pstage = "toc"
  /\ Len(pread) < pin.buf.tocLen \div TOC_ENTRY_SIZE
  /\ \E input \in EntryInputs(pin.buf, pin.expected) :
       LET entry == input[1]
           def   == input[2]
           got   == ParseTocEntry(pin.buf, Len(pread), entry, def)
       IN  /\ pread' = Append(pread, [entry |-> entry, def |-> def])
           /\ IF got.kind = "error"
              THEN /\ pstage' = "failed"
                   /\ pout' = got
                   /\ UNCHANGED ptensors
              ELSE /\ ptensors' = ObjectSet(ptensors, got.name, got.record)
                   /\ UNCHANGED <<pstage, pout>>
  /\ UNCHANGED pin
  /\ UNCHANGED notParse

\* The return after the last iteration.
ParseReturn ==
  /\ pstage = "toc"
  /\ Len(pread) = pin.buf.tocLen \div TOC_ENTRY_SIZE
  /\ pstage' = "returned"
  /\ pout' = ParsedModelOf(pin.buf, pin.expected,
                           [k \in 1..Len(pread) |-> pread[k].def], ptensors)
  /\ UNCHANGED <<pin, pread, ptensors>>
  /\ UNCHANGED notParse


(***************************************************************************)
(* Properties of parseContainer.                                           *)
(***************************************************************************)
DataSectionStart(buf) == FILE_HEADER_SIZE + buf.headerLen + buf.tocLen

\* The byte range a TOC entry names ends past the end of the buffer.
ExceedsBuffer(buf, entry) ==
  DataSectionStart(buf) + entry.relOffset + entry.nbytes > buf.len

IsShape(shape) == \A k \in 1..Len(shape) : shape[k].isInt /\ shape[k].v >= 0

EntryShape(def) == IF def.hasShape THEN def.shape ELSE <<>>

\* C1: every tensor of a returned model with a non-empty shape of
\* non-negative integers has product(shape) * width(dtype) = the byte length
\* of its TOC entry and holds product(shape) elements; and an entry that
\* reaches the size check with the two different fails with SizeMismatch.
C1_ShapeAgreesWithByteLength ==
  /\ pstage = "returned" =>
       \A k \in 1..Len(ptensors) :
         LET shape == ptensors[k].record.shape
             dtype == ptensors[k].record.dtype
         IN  (Len(shape) > 0 /\ IsShape(shape)) =>
               /\ ProductOfDims(shape) * DTYPE_BYTES(dtype) = ptensors[k].record.nbytes
               /\ Len(ptensors[k].record.data.elems) = ProductOfDims(shape)
  /\ \A k \in 1..Len(pread) :
       LET shape == EntryShape(pread[k].def)
           dtype == DTYPE_CODE_TO_NAME(pread[k].entry.dtypeCode)
       IN  ( /\ dtype # "undefined"
             /\ ~ExceedsBuffer(pin.buf, pread[k].entry)
             /\ Len(shape) > 0 /\ IsShape(shape)
             /\ ProductOfDims(shape) * DTYPE_BYTES(dtype) # pread[k].entry.nbytes )
           => (pstage = "failed" /\ pout.error = "SizeMismatch" /\ pout.at = k - 1)

\* C2 as stated: every entry read whose byte range ends past the buffer
\* fails the parse with InvalidTensorBounds.
C2_ExceedingEntryIsInvalidTensorBounds ==
  \A k \in 1..Len(pread) :
    ExceedsBuffer(pin.buf, pread[k].entry) =>
      (pstage = "failed" /\ pout.error = "InvalidTensorBounds" /\ pout.at = k - 1)

\* C2, amended: every entry read whose byte range ends past the buffer fails
\* the parse, for all values of the offset and length fields: with
\* UnknownDType when its dtype code is unknown (the earlier check), with
\* InvalidTensorBounds otherwise; and every tensor stored was read from a
\* byte range inside the buffer's data section.
C2_ExceedingEntryIsRejected ==
  /\ \A k \in 1..Len(pread) :
       ExceedsBuffer(pin.buf, pread[k].entry) =>
         /\ pstage = "failed" /\ pout.at = k - 1
         /\ pout.error =
              IF DTYPE_CODE_TO_NAME(pread[k].entry.dtypeCode) = "undefined"
              THEN "UnknownDType" ELSE "InvalidTensorBounds"
  /\ \A k \in 1..Len(ptensors) :
       /\ ptensors[k].record.absOffset >= DataSectionStart(pin.buf)
       /\ ptensors[k].record.absOffset + ptensors[k].record.nbytes <= pin.buf.len

\* C2's case: an entry with a known dtype whose offset is beyond the exactly
\* representable integers, and one whose length is the largest value, have
\* been rejected with InvalidTensorBounds.
C2_Witness ==
  /\ pstage = "failed" /\ pout.error = "InvalidTensorBounds"
  /\ pread[Len(pread)].entry.relOffset > Pow2(MantissaBits)
  /\ pread[Len(pread)].entry.nbytes = U64Max

\* The errors of the specification's taxonomy.
Taxonomy ==
  {"BufferTooSmall", "BadMagic", "InvalidTOCLength", "HeaderTOCOverflow",
   "InvalidHeader", "HeaderTensorCountMismatch", "UnknownDType",
   "InvalidTensorBounds", "InvalidShapeDimension", "SizeMismatch"}

ErrorKind(error) ==
  IF error \in {"InvalidHeader:json", "InvalidHeader:tensors"}
  THEN "InvalidHeader" ELSE error

\* C3: a call that has ended has returned a model or thrown one error of the
\* taxonomy.
C3_FailuresAreOfTheTaxonomy ==
  /\ pstage = "returned" => pout.kind = "model"
  /\ pstage = "failed" => (pout.kind = "error" /\ ErrorKind(pout.error) \in Taxonomy)

\* The first check of the documented order that the fixed header and the
\* JSON header fail, "none" if they pass them all.
EarliestHeaderFailure(buf, expectedFormat) ==
  LET checks ==
        << <<"BufferTooSmall", buf.len < FILE_HEADER_SIZE>>,
           <<"BadMagic", buf.magic # expectedFormat>>,
           <<"InvalidTOCLength", buf.tocLen % TOC_ENTRY_SIZE # 0>>,
           <<"HeaderTOCOverflow", DataSectionStart(buf) > buf.len>>,
           <<"InvalidHeader:json", buf.json.kind = "bad">>,
           <<"InvalidHeader:tensors", buf.json.kind # "array">>,
           <<"HeaderTensorCountMismatch",
             buf.json.n * TOC_ENTRY_SIZE < buf.tocLen>> >>
      failing == {c \in 1..Len(checks) : checks[c][2]}
  IN  IF failing = {} THEN "none"
      ELSE checks[CHOOSE c \in failing : \A d \in failing : c <= d][1]

\* The first check of the documented order that a TOC entry and its
\* definition fail, "none" if they pass them all.
EarliestEntryFailure(buf, entry, def) ==
  LET shape == EntryShape(def)
      known == entry.dtypeCode \in 1..5
      checks ==
        << <<"UnknownDType", ~known>>,
           <<"InvalidTensorBounds", ExceedsBuffer(buf, entry)>>,
           <<"InvalidShapeDimension", ~IsShape(shape)>>,
           <<"SizeMismatch",
             /\ known /\ Len(shape) > 0 /\ IsShape(shape)
             /\ ProductOfDims(shape) * DTYPE_BYTES(DTYPE_CODE_TO_NAME(entry.dtypeCode))
                  # entry.nbytes>> >>
      failing == {c \in 1..Len(checks) : checks[c][2]}
  IN  IF failing = {} THEN "none"
      ELSE checks[CHOOSE c \in failing : \A d \in failing : c <= d][1]

\* The failure the documented order of checks gives for what has been read:
\* the header's first failing check, else the first failing check of the
\* first failing entry, else none.
EarliestFailure ==
  LET header == EarliestHeaderFailure(pin.buf, pin.expected)
      bad == {k \in 1..Len(pread) :
                EarliestEntryFailure(pin.buf, pread[k].entry, pread[k].def) # "none"}
  IN  IF header # "none" THEN [error |-> header, at |-> -1]
      ELSE IF bad = {} THEN [error |-> "none", at |-> -1]
      ELSE LET k == CHOOSE j \in bad : \A m \in bad : j <= m
           IN  [error |-> EarliestEntryFailure(pin.buf, pread[k].entry, pread[k].def),
                at |-> k - 1]

\* C8: a call that has ended has failed exactly when a check of the
\* documented order fails, with the error of the earliest failing check, at
\* the entry that fails it and with no later entry read; and the tensors
\* stored until then were read inside the buffer.
C8_EarliestFailingCheckIsReported ==
  /\ pstage = "returned" => EarliestFailure.error = "none"
  /\ pstage = "failed" =>
       /\ pout.error = EarliestFailure.error
       /\ pout.at = EarliestFailure.at
       /\ pout.at = Len(pread) - 1
  /\ \A k \in 1..Len(ptensors) :
       ptensors[k].record.absOffset + ptensors[k].record.nbytes <= pin.buf.len

\* The order of C8 holds of every failure that is one of the taxonomy, and
\* of every return whose zero-sized shapes are set aside.
OrderOfTypedFailures ==
  /\ (pstage = "failed" /\ pout.error # "RangeError") =>
       /\ pout.error = EarliestFailure.error
       /\ pout.at = EarliestFailure.at
       /\ pout.at = Len(pread) - 1
  /\ pstage = "returned" =>
       \/ EarliestFailure.error = "none"
       \/ /\ EarliestFailure.error = "SizeMismatch"
          /\ ProductOfDims(EntryShape(pread[EarliestFailure.at + 1].def)) = 0

\* The name the entry at TOC index k - 1 resolves to (line 180).
ResolvedName(k) ==
  IF pread[k].def.hasName THEN pread[k].def.name ELSE TensorPlaceholder(k - 1)

ResolvedNames == {ResolvedName(k) : k \in 1..Len(pread)}

\* The last entry read that resolves to the name.
LastEntryNamed(name) ==
  CHOOSE k \in 1..Len(pread) :
    /\ ResolvedName(k) = name
    /\ \A j \in 1..Len(pread) : ResolvedName(j) = name => j <= k

\* Under every name of `names` the mapping holds the record of the last
\* entry of that name, and it has no other key.
HoldsLastOf(names) ==
  /\ \A name \in names :
       /\ \E j \in 1..Len(pout.tensors) : pout.tensors[j].name = name
       /\ ObjectGet(pout.tensors, name)
            = ParseTocEntry(pin.buf, LastEntryNamed(name) - 1,
                            pread[LastEntryNamed(name)].entry,
                            pread[LastEntryNamed(name)].def).record
  /\ \A k \in 1..Len(pout.tensors) : pout.tensors[k].name \in names

\* Every entry read is validated: one that fails a check fails the parse.
EveryEntryIsValidated ==
  \A k \in 1..Len(pread) :
    ParseTocEntry(pin.buf, k - 1, pread[k].entry, pread[k].def).kind = "error"
      => (pstage = "failed" /\ pout.at = k - 1)

\* C18: when several TOC entries resolve to one name, the returned mapping
\* holds under that name the record (data, shape, dtype) of the last of
\* them; the earlier ones are validated, an error in one fails the parse,
\* and they leave no trace in the mapping.
C18_LastEntryOfANameWins ==
  /\ EveryEntryIsValidated
  /\ pstage = "returned" => HoldsLastOf(ResolvedNames)

\* What does hold: the same for the names other than "__proto__", under
\* which the mapping never has a key.
LastEntryWinsButForProto ==
  /\ EveryEntryIsValidated
  /\ pstage = "returned" => HoldsLastOf(ResolvedNames \ {"__proto__"})

\* The names in the order of their first entries.
RECURSIVE FirstOccurrences(_, _)
FirstOccurrences(k, seen) ==
  IF k > Len(pread) THEN <<>>
  ELSE IF ResolvedName(k) \in seen THEN FirstOccurrences(k + 1, seen)
  ELSE <<ResolvedName(k)>> \o FirstOccurrences(k + 1, seen \cup {ResolvedName(k)})

\* C20: in every returned model metadata.names lists the names in TOC order,
\* each at the position of its first entry, and metadata.tensorCount =
\* tocLen / 32 >= length(names), with equality exactly when the names the
\* entries resolve to are pairwise distinct.
C20_NamesInTocOrder ==
  pstage = "returned" =>
    /\ pout.metadata.names = FirstOccurrences(1, {})
    /\ pout.metadata.names = ObjectKeys(pout.tensors)
    /\ pout.metadata.tensorCount = pin.buf.tocLen \div 32
    /\ pout.metadata.tensorCount >= Len(pout.metadata.names)
    /\ (pout.metadata.tensorCount = Len(pout.metadata.names))
         = (Cardinality(ResolvedNames) = Len(pread))

\* What does hold: the same for a TOC none of whose names is "__proto__" or
\* an array index.
NamesInTocOrderOfOrdinaryNames ==
  (ResolvedNames \cap (IndexKeys \cup {"__proto__"}) = {}) => C20_NamesInTocOrder

(***************************************************************************)
(* utils/tensorUtils: sanitizeFiniteInPlace.  The elements of a            *)
(* Float32Array are [sign, exp, frac] as above.                            *)
(***************************************************************************)
\* Number.isFinite(x) for an element of a Float32Array.
IsFinite(x) == x.exp # 255

F32Zero == [sign |-> 0, exp |-> 0, frac |-> 0]
F32NaN == [sign |-> 0, exp |-> 255, frac |-> 4194304]
F32Inf == [sign |-> 0, exp |-> 255, frac |-> 0]

\* The binary32 value nearest to the integer n (ties to even), as storing a
\* number into a Float32Array gives it; n > -2^31.
F32OfInt(n) ==
  LET mag == IF n < 0 THEN -n ELSE n
      top == BitLength(mag) - 1
      ulp == Pow2(top - 23)
      q   == mag \div ulp
      r   == mag % ulp
      up  == IF 2 * r > ulp \/ (2 * r = ulp /\ q % 2 = 1) THEN q + 1 ELSE q
  IN  IF n = 0 THEN F32Zero
      ELSE IF top <= 23
      THEN [sign |-> IF n < 0 THEN 1 ELSE 0,
            exp  |-> top + 127,
            frac |-> (mag - Pow2(top)) * Pow2(23 - top)]
      ELSE IF up = Pow2(24)
      THEN [sign |-> IF n < 0 THEN 1 ELSE 0, exp |-> top + 128, frac |-> 0]
      ELSE [sign |-> IF n < 0 THEN 1 ELSE 0, exp |-> top + 127, frac |-> up - Pow2(23)]

\* The bound of the search loop: `j < 32`.
SEARCH_LIMIT == 32

\* Lines 53-63 with a replacement that may be taken from a non-finite
\* neighbour: the nearest neighbour, finite or not.
ReplacementUnchecked(values, i) ==
  IF i - 1 >= 0 THEN values[i] ELSE IF i + 1 < Len(values) THEN values[i + 2] ELSE F32Zero

\* Lines 53-63: the replacement for the non-finite values[i] (i counts from
\* 0, as in the code): the first finite element met at i - j or i + j for
\* j = 1..31, the lower index first, else 0.
Replacement(values, i) ==
  LET n == Len(values)
      found == {j \in 1..(SEARCH_LIMIT - 1) :
                  \/ (i - j >= 0 /\ IsFinite(values[i - j + 1]))
                  \/ (i + j < n /\ IsFinite(values[i + j + 1]))}
  IN  IF found = {} THEN F32Zero
      ELSE LET j == CHOOSE a \in found : \A b \in found : a <= b
           IN  IF i - j >= 0 /\ IsFinite(values[i - j + 1])
               THEN values[i - j + 1] ELSE values[i + j + 1]

\* Lines 48-67: the iteration of the outer loop at index i, on the state
\* [values, replaced].
SanitizeIteration(state, i) ==
  IF IsFinite(state.values[i + 1]) THEN state
  ELSE [values   |-> [state.values EXCEPT ![i + 1] = Replacement(state.values, i)],
        replaced |-> state.replaced + 1]

RECURSIVE SanitizeFrom(_, _)
SanitizeFrom(state, i) ==
  IF i >= Len(state.values) THEN state
  ELSE SanitizeFrom(SanitizeIteration(state, i), i + 1)

\* sanitizeFiniteInPlace(values): the array afterwards and the number returned.
sanitizeFiniteInPlace(values) ==
  SanitizeFrom([values |-> values, replaced |-> 0], 0)

(***************************************************************************)
(* The sanitizer's specification: one call of sanitizeFiniteInPlace, the   *)
(* outer loop taken one iteration at a time.                               *)
(***************************************************************************)
\* The longest of the arrays of which every content is tried.
MaxShort == 4

F32One == F32OfInt(1)
F32Two == F32OfInt(2)

RECURSIVE SeqsUpTo(_, _)
SeqsUpTo(S, n) ==
  IF n = 0 THEN {<<>>}
  ELSE LET shorter == SeqsUpTo(S, n - 1)
       IN  shorter \cup {Append(q, x) : q \in {r \in shorter : Len(r) = n - 1}, x \in S}

Repeat(x, n) == [k \in 1..n |-> x]

\* The arrays the sanitizer is tried on: every array of at most MaxShort
\* elements out of two finite values, NaN and Infinity; and the arrays of
\* one finite value between two runs of NaN whose lengths are about the
\* reach of the search.
SanitizeInputs ==
  SeqsUpTo({F32One, F32Two, F32NaN, F32Inf}, MaxShort)
    \cup {Repeat(F32NaN, a) \o <<F32Two>> \o Repeat(F32NaN, b) :
            a \in {0, 1, SEARCH_LIMIT - 2, SEARCH_LIMIT - 1, SEARCH_LIMIT, SEARCH_LIMIT + 1},
            b \in {0, 1, SEARCH_LIMIT - 1, SEARCH_LIMIT}}

IdleSanitize ==
  /\ sstage = "idle"
  /\ sin = <<>>
  /\ svalues = <<>>
  /\ si = 0
  /\ sreplaced = 0

\* The call: `let replaced = 0` and `i = 0`.
SanitizeCall ==
  /\ sstage = "idle"
  /\ \E values \in SanitizeInputs :
       /\ sin' = values
       /\ svalues' = values
  /\ sstage' = "loop"
  /\ si' = 0
  /\ sreplaced' = 0
  /\ UNCHANGED notSanitize

\* One iteration of the outer loop.
SanitizeStep ==
  /\ sstage = "loop"
  /\ si < Len(svalues)
  /\ LET after == SanitizeIteration([values |-> svalues, replaced |-> sreplaced], si)
     IN  /\ svalues' = after.values
         /\ sreplaced' = after.replaced
  /\ si' = si + 1
  /\ UNCHANGED <<sstage, sin>>
  /\ UNCHANGED notSanitize

\* The return of `replaced` when the loop condition fails.
SanitizeReturn ==
  /\ sstage = "loop"
  /\ si >= Len(svalues)
  /\ sstage' = "done"
  /\ UNCHANGED <<sin, svalues, si, sreplaced>>
  /\ UNCHANGED notSanitize


(***************************************************************************)
(* Properties of sanitizeFiniteInPlace.                                    *)
(***************************************************************************)
\* The nearest finite element of `original` to index i (from 0) within
\* SEARCH_LIMIT - 1 places, the lower index winning at equal distance; 0 if
\* there is none.
NearestFinite(original, i) ==
  LET n == Len(original)
      near == {j \in 1..(SEARCH_LIMIT - 1) :
                 \/ (i - j >= 0 /\ IsFinite(original[i - j + 1]))
                 \/ (i + j < n /\ IsFinite(original[i + j + 1]))}
  IN  IF near = {} THEN F32Zero
      ELSE LET d == CHOOSE a \in near : \A b \in near : a <= b
           IN  IF i - d >= 0 /\ IsFinite(original[i - d + 1])
               THEN original[i - d + 1] ELSE original[i + d + 1]

\* C6: when the call has returned, every element that was not finite holds
\* the nearest finite element of the array as it was passed in, and 0 only
\* when that array has no finite element within 31 places.
C6_NearestFiniteOfInput ==
  sstage = "done" =>
    \A k \in 1..Len(sin) :
      ~IsFinite(sin[k]) => svalues[k] = NearestFinite(sin, k - 1)

\* What the code writes instead: the first element takes the nearest finite
\* element after it; every other element takes the element before it as
\* already sanitized.
SanitizeFillsForward ==
  sstage = "done" =>
    \A k \in 1..Len(sin) :
      ~IsFinite(sin[k]) =>
        svalues[k] = IF k = 1 THEN NearestFinite(sin, 0) ELSE svalues[k - 1]

\* C7, the state it ends in: every element is finite, the elements that were
\* finite are unchanged, and the number returned is the number of elements
\* that were not finite.
SanitizePostcondition ==
  /\ Len(svalues) = Len(sin)
  /\ \A k \in 1..Len(svalues) :
       /\ IsFinite(svalues[k])
       /\ IsFinite(sin[k]) => svalues[k] = sin[k]
  /\ sreplaced = Cardinality({k \in 1..Len(sin) : ~IsFinite(sin[k])})

\* C7: every call of sanitizeFiniteInPlace returns, with no failure on the
\* way, and when it has returned every element is finite, the elements that
\* were finite are unchanged and the number returned is the number of
\* elements that were not finite.
C7_SanitizeTerminatesAllFinite ==
  /\ [](sstage = "done" => SanitizePostcondition)
  /\ [](sstage = "loop" => <>(sstage = "done"))

\* C7's case: a call has returned after replacing two elements of an array
\* that also held a finite one.
C7_Witness ==
  /\ sstage = "done"
  /\ sreplaced = 2
  /\ \E k \in 1..Len(sin) : IsFinite(sin[k])

(***************************************************************************)
(* formats/detectFormat.  A buffer is the sequence of its bytes, each held *)
(* as the one-character string String.fromCharCode gives for it.           *)
(***************************************************************************)
\* String.fromCharCode(...new Uint8Array(buffer, 0, 4)).
MagicOf(bytes) == bytes[1] \o bytes[2] \o bytes[3] \o bytes[4]

\* detectFormat with only the tag TSGD taken for the current dialect.
detectFormatWithoutAlias(bytes) ==
  IF Len(bytes) < 4 THEN [kind |-> "error", error |-> "BufferTooSmall"]
  ELSE LET magic == MagicOf(bytes)
       IN  IF magic = "TGSP"
           THEN [kind |-> "detected", format |-> "TGSP", parser |-> "tgsp", magic |-> magic]
           ELSE IF magic = "TSGD"
           THEN [kind |-> "detected", format |-> "TSGD", parser |-> "tsgd", magic |-> magic]
           ELSE [kind |-> "error", error |-> "UnsupportedFormat"]

\* detectFormat(buffer): the DetectedFormat returned, or the error thrown.
detectFormat(bytes) ==
  IF Len(bytes) < 4 THEN [kind |-> "error", error |-> "BufferTooSmall"]
  ELSE LET magic == MagicOf(bytes)
       IN  IF magic = "TGSP"
           THEN [kind |-> "detected", format |-> "TGSP", parser |-> "tgsp", magic |-> magic]
           ELSE IF magic = "TSGD" \/ magic = "TGSD"
           THEN [kind |-> "detected", format |-> "TSGD", parser |-> "tsgd", magic |-> magic]
           ELSE [kind |-> "error", error |-> "UnsupportedFormat"]

\* The longest buffer handed to the detector, in bytes.
MaxDetectLen == 5

\* The bytes the buffers handed to the detector are made of.
TagChars == {"T", "G", "S", "P", "D"}

\* No buffer is in memory and no call is made.
IdleDetect ==
  /\ dstage = "idle"
  /\ dorig = <<>>
  /\ dbuf = <<>>
  /\ dout = [kind |-> "none"]

\* A buffer is in memory.
InitDetect ==
  /\ dstage = "idle"
  /\ dorig \in SeqsUpTo(TagChars, MaxDetectLen)
  /\ dbuf = dorig
  /\ dout = [kind |-> "none"]

\* One call of detectFormat on the buffer: it reads the buffer and writes
\* nothing to it.
Detect ==
  /\ dstage = "idle"
  /\ dout' = detectFormat(dbuf)
  /\ dstage' = "done"
  /\ UNCHANGED <<dorig, dbuf>>
  /\ UNCHANGED notDetect


\* C10: a call on a buffer of fewer than 4 bytes fails with BufferTooSmall;
\* otherwise the outcome is decided by bytes 0..3: TGSP gives the legacy
\* dialect, TSGD and TGSD give the current dialect, any other tag fails with
\* UnsupportedFormat; and the buffer holds the bytes it held before.
C10_DetectClassifiesByTag ==
  dstage = "done" =>
    /\ dbuf = dorig
    /\ IF Len(dorig) < 4
       THEN dout = [kind |-> "error", error |-> "BufferTooSmall"]
       ELSE LET tag == <<dorig[1], dorig[2], dorig[3], dorig[4]>>
            IN  CASE tag = <<"T", "G", "S", "P">> ->
                       dout.kind = "detected" /\ dout.format = "TGSP"
                                              /\ dout.parser = "tgsp"
                  [] tag \in {<<"T", "S", "G", "D">>, <<"T", "G", "S", "D">>} ->
                       dout.kind = "detected" /\ dout.format = "TSGD"
                                              /\ dout.parser = "tsgd"
                  [] OTHER ->
                       dout = [kind |-> "error", error |-> "UnsupportedFormat"]

\* C10's case: a buffer longer than its tag, with the alias tag TGSD, has
\* been classified as the current dialect.
C10_Witness ==
  /\ dstage = "done"
  /\ Len(dorig) > 4
  /\ MagicOf(dorig) = "TGSD"
  /\ dout.kind = "detected" /\ dout.format = "TSGD"

(***************************************************************************)
(* utils/tensorUtils: the decoding policies.  A number they compute with   *)
(* is held to a millionth: [kind, u] is NaN, +Infinity, -Infinity, or the  *)
(* finite number u / 1000000.                                              *)
(***************************************************************************)
Million == 1000 * 1000

Fin(u) == [kind |-> "fin", u |-> u]
NaNNumber == [kind |-> "nan", u |-> 0]
PosInfinity == [kind |-> "inf", u |-> 0]
NegInfinity == [kind |-> "ninf", u |-> 0]

\* values[i] of a Float32Array, for an element of at most nine significant
\* bits and of magnitude below 2048.
NumberOf(x) ==
  IF x.exp = 255
  THEN IF x.frac # 0 THEN NaNNumber
       ELSE IF x.sign = 1 THEN NegInfinity ELSE PosInfinity
  ELSE IF x.exp = 0 THEN Fin(0)
  ELSE LET e   == x.exp - 127
           m8  == (8388608 + x.frac) \div 32768
           mag == IF e >= 8 THEN m8 * Pow2(e - 8) * Million
                  ELSE IF 8 - e > 30 THEN 0
                  ELSE (m8 * Million) \div Pow2(8 - e)
       IN  Fin(IF x.sign = 1 THEN -mag ELSE mag)

\* a < b; false when either is NaN.
NumLess(a, b) ==
  /\ a.kind # "nan" /\ b.kind # "nan"
  /\ CASE a.kind = "ninf" -> b.kind # "ninf"
       [] a.kind = "inf" -> FALSE
       [] OTHER -> b.kind = "inf" \/ (b.kind = "fin" /\ a.u < b.u)

\* a <= b; false when either is NaN.
NumLessEq(a, b) ==
  /\ a.kind # "nan" /\ b.kind # "nan"
  /\ ~NumLess(b, a)

\* Math.min and Math.max of two numbers: NaN when either is NaN.
MathMin(a, b) ==
  IF a.kind = "nan" \/ b.kind = "nan" THEN NaNNumber
  ELSE IF NumLess(b, a) THEN b ELSE a

MathMax(a, b) ==
  IF a.kind = "nan" \/ b.kind = "nan" THEN NaNNumber
  ELSE IF NumLess(a, b) THEN b ELSE a

\* The value of the last entry of an ascending table whose argument is at
\* most u; `sofar` below the first.
RECURSIVE TableAt(_, _, _)
TableAt(table, u, sofar) ==
  IF table = <<>> \/ Head(table)[1] > u THEN sofar
  ELSE TableAt(Tail(table), u, Head(table)[2])

\* Math.exp at the arguments the model uses; between them the lower
\* argument's value stands in.
ExpTable ==
  << <<-16000000, 0>>, <<-2000000, 135335>>, <<-500000, 606531>>,
     <<0, 1000000>>, <<61, 1000061>>, <<250000, 1284025>>,
     <<500000, 1648721>>, <<1000000, 2718282>>, <<1500000, 4481689>>,
     <<2000000, 7389056>>, <<3000000, 20085537>> >>

MathExp(x) ==
  CASE x.kind = "nan" -> NaNNumber
    [] x.kind = "inf" -> PosInfinity
    [] x.kind = "ninf" -> Fin(0)
    [] OTHER -> Fin(TableAt(ExpTable, x.u, 0))

\* 1 / (1 + Math.exp(-x)) at the arguments the model uses.
SigmoidTable ==
  << <<-16000000, 0>>, <<-2000000, 119203>>, <<-500000, 377541>>,
     <<0, 500000>>, <<61, 500015>>, <<250000, 562177>>, <<500000, 622459>>,
     <<625000, 651355>>, <<750000, 679179>>, <<875000, 705785>>,
     <<1000000, 731059>>, <<1500000, 817574>>, <<2000000, 880797>>,
     <<3000000, 952574>>, <<16000000, 1000000>> >>

sigmoid(x) ==
  CASE x.kind = "nan" -> NaNNumber
    [] x.kind = "inf" -> Fin(Million)
    [] x.kind = "ninf" -> Fin(0)
    [] OTHER -> Fin(TableAt(SigmoidTable, x.u, 0))

\* SH_C0 = 0.28209479177387814, in millionths.
SH_C0 == 282095

\* v / 255, to the nearest millionth.
DividedBy255(v) ==
  IF v.kind # "fin" THEN v ELSE Fin((2 * v.u + 255) \div 510)

\* v * SH_C0 + 0.5, for |v| below 7000.
ShToLinear(v) ==
  CASE v.kind = "nan" -> NaNNumber
    [] v.kind = "inf" -> PosInfinity
    [] v.kind = "ninf" -> NegInfinity
    [] OTHER -> Fin(((v.u \div 1000) * SH_C0) \div 1000 + Million \div 2)

\* 0.01 + Math.exp(v).
LogToSigma(v) ==
  LET e == MathExp(v)
  IN  IF e.kind = "fin" THEN Fin(Million \div 100 + e.u) ELSE e

\* v < 0 || v > 1.
OutsideUnit(v) == NumLess(v, Fin(0)) \/ NumLess(Fin(Million), v)

\* decodeColorDC deciding 'auto' on the first component alone.
decodeColorDCByFirst(colorValues, dtype, mode) ==
  LET n == Len(colorValues)
      raw == [i \in 1..n |-> NumberOf(colorValues[i])]
      treatAsSH == \/ mode = "sh"
                   \/ mode = "auto" /\ n > 0 /\ OutsideUnit(raw[1])
      interpretation == IF dtype = "u8" THEN "u8"
                        ELSE IF treatAsSH THEN "sh" ELSE "linear"
      transformed == [i \in 1..n |->
                        IF dtype = "u8" THEN DividedBy255(raw[i])
                        ELSE IF treatAsSH THEN ShToLinear(raw[i]) ELSE raw[i]]
  IN  [transformed |-> transformed,
       values |-> [i \in 1..n |->
                     MathMax(Fin(0), MathMin(Fin(Million), transformed[i]))],
       interpretation |-> interpretation]

\* decodeColorDC(colorValues, dtype, mode).  `transformed` is `out` after
\* the first loop, `values` is `out` after the clamping loop.
decodeColorDC(colorValues, dtype, mode) ==
  LET n == Len(colorValues)
      raw == [i \in 1..n |-> NumberOf(colorValues[i])]
      treatAsSH == \/ mode = "sh"
                   \/ mode = "auto" /\ \E i \in 1..n : OutsideUnit(raw[i])
      interpretation == IF dtype = "u8" THEN "u8"
                        ELSE IF treatAsSH THEN "sh" ELSE "linear"
      transformed == [i \in 1..n |->
                        IF dtype = "u8" THEN DividedBy255(raw[i])
                        ELSE IF treatAsSH THEN ShToLinear(raw[i]) ELSE raw[i]]
  IN  [transformed |-> transformed,
       values |-> [i \in 1..n |->
                     MathMax(Fin(0), MathMin(Fin(Million), transformed[i]))],
       interpretation |-> interpretation]

\* applyOpacityPolicy letting the data override the mode 'linear'.
applyOpacityPolicyOverriding(opacityValues, mode) ==
  LET n == Len(opacityValues)
      raw == [i \in 1..n |-> NumberOf(opacityValues[i])]
      treatAsLogits == \/ mode = "logits"
                       \/ \E i \in 1..n : OutsideUnit(raw[i])
      transformed == [i \in 1..n |->
                        IF treatAsLogits THEN sigmoid(raw[i]) ELSE raw[i]]
  IN  [transformed |-> transformed,
       values |-> [i \in 1..n |->
                     MathMax(Fin(0), MathMin(Fin(Million), transformed[i]))],
       treatedAs |-> IF treatAsLogits THEN "logits" ELSE "linear"]

\* applyOpacityPolicy(opacityValues, mode).  `transformed` is v of each
\* iteration, before the clamp.
applyOpacityPolicy(opacityValues, mode) ==
  LET n == Len(opacityValues)
      raw == [i \in 1..n |-> NumberOf(opacityValues[i])]
      treatAsLogits == \/ mode = "logits"
                       \/ mode = "auto" /\ \E i \in 1..n : OutsideUnit(raw[i])
      transformed == [i \in 1..n |->
                        IF treatAsLogits THEN sigmoid(raw[i]) ELSE raw[i]]
  IN  [transformed |-> transformed,
       values |-> [i \in 1..n |->
                     MathMax(Fin(0), MathMin(Fin(Million), transformed[i]))],
       treatedAs |-> IF treatAsLogits THEN "logits" ELSE "linear"]

\* applySigmaPolicy(sigmaValues, mode); the bounds of the clamp are 1e-4
\* and 10.
applySigmaPolicy(sigmaValues, mode) ==
  LET n == Len(sigmaValues)
      raw == [i \in 1..n |-> NumberOf(sigmaValues[i])]
      treatAsLogSigma == \/ mode = "log"
                         \/ mode = "auto" /\ \E i \in 1..n : NumLessEq(raw[i], Fin(0))
      transformed == [i \in 1..n |->
                        IF treatAsLogSigma THEN LogToSigma(raw[i]) ELSE raw[i]]
  IN  [transformed |-> transformed,
       values |-> [i \in 1..n |->
                     MathMax(Fin(100), MathMin(Fin(10 * Million), transformed[i]))],
       treatedAs |-> IF treatAsLogSigma THEN "log" ELSE "linear"]

(***************************************************************************)
(* resolveSemantics.  Typed arrays are objects: the model's tensors and     *)
(* the result refer to them by their index in `heap`, so that two          *)
(* references to one array are visible.                                    *)
(***************************************************************************)
KEY_ALIASES_positions == <<"triangles_points", "triangle_points", "positions">>
KEY_ALIASES_colorDC == <<"features_dc", "color_dc", "colors_dc">>
KEY_ALIASES_colorRest == <<"features_rest", "color_rest", "colors_rest">>
KEY_ALIASES_opacity == <<"opacity_alpha", "opacity", "alpha">>
KEY_ALIASES_sigma == <<"sigma">>

\* Boolean(tensors[key]): a TensorRecord is an object, hence truthy.
HasTensor(tensors, key) == \E k \in 1..Len(tensors) : tensors[k].name = key

\* findTensor walking the aliases from the last to the first.
findTensorFromLast(tensors, aliases) ==
  LET hits == {a \in 1..Len(aliases) : HasTensor(tensors, aliases[a])}
      last == CHOOSE a \in hits : \A b \in hits : a >= b
  IN  IF hits = {} THEN [found |-> FALSE, name |-> "undefined"]
      ELSE [found |-> TRUE, name |-> aliases[last],
            record |-> ObjectGet(tensors, aliases[last])]

\* findTensor and findTensorName: the first alias the object has, with its
\* record; found is FALSE where findTensor returns null.
findTensor(tensors, aliases) ==
  LET hits == {a \in 1..Len(aliases) : HasTensor(tensors, aliases[a])}
      first == CHOOSE a \in hits : \A b \in hits : a <= b
  IN  IF hits = {} THEN [found |-> FALSE, name |-> "undefined"]
      ELSE [found |-> TRUE, name |-> aliases[first],
            record |-> ObjectGet(tensors, aliases[first])]

\* Number(x) of a BigInt64Array element stored into a Float32Array, for the
\* elements from 0 to 2^31 - 1.
F32OfInt64(x) == F32OfInt(x.mid * 65536 + x.lo)

\* Float32Array.from(input) and the BigInt loop: a new array with each
\* element converted.
ConvertedToFloat32(array) ==
  [cls |-> "Float32Array",
   elems |-> [k \in 1..Len(array.elems) |->
                IF array.cls = "BigInt64Array" THEN F32OfInt64(array.elems[k])
                ELSE F32OfInt(array.elems[k])]]

\* toFloat32Array(input): the input itself when it is a Float32Array, else
\* a new array.  Returns the memory after the call and the reference.
toFloat32Array(mem, ref) ==
  IF mem[ref].cls = "Float32Array" THEN [heap |-> mem, ref |-> ref]
  ELSE [heap |-> Append(mem, ConvertedToFloat32(mem[ref])), ref |-> Len(mem) + 1]

ResolveError(error, mem) == [kind |-> "error", error |-> error, heap |-> mem]

\* The largest length `new Float32Array(length)` allocates; a longer one
\* throws a RangeError.  It stands to the model's numbers as 2^53 - 1 stands
\* to a double.
MaxArrayLength == Pow2(MantissaBits) - 1

Null == [kind |-> "null"]

\* BroadcastColour reading each vertex's own three components: vertex
\* 3 * tri + v of the output from decoded[(3 * tri + v) * 3 + channel].
BroadcastColourPerVertex(decoded, triangleCount) ==
  [k \in 1..(9 * triangleCount) |->
     IF k <= Len(decoded) THEN decoded[k] ELSE Fin(Million \div 2)]

\* Lines 82-95: each primitive's three decoded components written to its
\* three vertices; 0.5 where the decoded tensor has no such component.
BroadcastColour(decoded, triangleCount) ==
  [k \in 1..(9 * triangleCount) |->
     LET tri == (k - 1) \div 9
         channel == (k - 1) % 3
     IN  IF tri * 3 + channel + 1 <= Len(decoded)
         THEN decoded[tri * 3 + channel + 1] ELSE Fin(Million \div 2)]

\* Lines 109-114 and 126-131: each primitive's value written to its three
\* vertices; `missing` where the tensor has no such value.
BroadcastScalar(applied, triangleCount, missing) ==
  [k \in 1..(3 * triangleCount) |->
     LET tri == (k - 1) \div 3
     IN  IF tri + 1 <= Len(applied) THEN applied[tri + 1] ELSE missing]

\* Lines 79-166 of resolveSemantics, after the position tensor has passed
\* its checks: the colour, opacity and sigma buffers and the value returned.
\* `mem` is the memory after sanitization; the arrays toFloat32Array
\* allocates for the appearance tensors are appended to it.
ResolveAppearance(mem, tensors, options, positions, replaced) ==
  LET triangleCount == positions.shape[1].v
      totalVertices == triangleCount * 3
      colorTensor == findTensor(tensors, KEY_ALIASES_colorDC)
      colorSrc == toFloat32Array(mem, colorTensor.record.data)
      mem1 == IF colorTensor.found THEN colorSrc.heap ELSE mem
      decoded == decodeColorDC(colorSrc.heap[colorSrc.ref].elems,
                               colorTensor.record.dtype, options.colorMode)
      opacityTensor == findTensor(tensors, KEY_ALIASES_opacity)
      opacitySrc == toFloat32Array(mem1, opacityTensor.record.data)
      mem2 == IF opacityTensor.found THEN opacitySrc.heap ELSE mem1
      opacityApplied == applyOpacityPolicy(opacitySrc.heap[opacitySrc.ref].elems,
                                           options.opacityMode)
      sigmaTensor == findTensor(tensors, KEY_ALIASES_sigma)
      sigmaSrc == toFloat32Array(mem2, sigmaTensor.record.data)
      mem3 == IF sigmaTensor.found THEN sigmaSrc.heap ELSE mem2
      sigmaApplied == applySigmaPolicy(sigmaSrc.heap[sigmaSrc.ref].elems,
                                       options.sigmaMode)
      colorRest == findTensor(tensors, KEY_ALIASES_colorRest)
  IN  IF totalVertices * 3 > MaxArrayLength THEN ResolveError("RangeError", mem)
      ELSE
        [kind |-> "semantic",
         heap |-> mem3,
         positions |-> positions,
         colorDC |-> IF colorTensor.found
                     THEN [kind |-> "colorDC",
                           tensorName |-> colorTensor.name,
                           data |-> BroadcastColour(decoded.values, triangleCount),
                           interpretation |-> decoded.interpretation]
                     ELSE Null,
         colorRest |-> IF colorRest.found
                       THEN [kind |-> "record", record |-> colorRest.record]
                       ELSE Null,
         opacity |-> IF opacityTensor.found
                     THEN [kind |-> "opacity",
                           data |-> BroadcastScalar(opacityApplied.values, triangleCount,
                                                    Fin(Million)),
                           interpretation |-> opacityApplied.treatedAs]
                     ELSE Null,
         sigma |-> IF sigmaTensor.found
                   THEN [kind |-> "sigma",
                         data |-> BroadcastScalar(sigmaApplied.values, triangleCount,
                                                  Fin(Million \div 10)),
                         interpretation |-> sigmaApplied.treatedAs]
                   ELSE Null,
         stats |-> [triangleCount |-> triangleCount,
                    totalVertices |-> totalVertices,
                    replacedPositionValues |-> replaced,
                    colorInterpretation |->
                      IF colorTensor.found THEN decoded.interpretation ELSE "none",
                    opacityInterpretation |->
                      IF opacityTensor.found THEN opacityApplied.treatedAs ELSE "none",
                    sigmaInterpretation |->
                      IF sigmaTensor.found THEN sigmaApplied.treatedAs ELSE "none"]]

\* resolveSemantics(parsedModel, options): the memory after the call and the
\* outcome.  `values` is what positions.data holds when the call returns;
\* the colour, opacity and sigma buffers are fresh arrays, given by their
\* values.  shDegree, a number copied from the header, is left out.
resolveSemantics(mem, tensors, options) ==
  LET positionTensor == findTensor(tensors, KEY_ALIASES_positions)
      positionData == toFloat32Array(mem, positionTensor.record.data)
      sanitized == sanitizeFiniteInPlace(positionData.heap[positionData.ref].elems)
      after == [positionData.heap EXCEPT ![positionData.ref].elems = sanitized.values]
      shape == positionTensor.record.shape
  IN  IF ~positionTensor.found THEN ResolveError("MissingPositionTensor", mem)
      ELSE IF Len(shape) < 3 THEN ResolveError("UnsupportedShape", after)
      ELSE IF shape[2] # IntDim(3) \/ shape[3] # IntDim(3)
      THEN ResolveError("UnsupportedShape", after)
      ELSE ResolveAppearance(after, tensors, options,
                             [tensorName |-> positionTensor.name,
                              data |-> positionData.ref,
                              values |-> sanitized.values,
                              shape |-> shape],
                             sanitized.replaced)

(***************************************************************************)
(* The resolver's specification: a ParsedModel as parseContainer returns   *)
(* them is in memory, and resolveSemantics is called on it some times.     *)
(***************************************************************************)
MaxCalls == 2
MaxBad == 2
Triangles == 1

Coordinates == 9 * Triangles

\* The coordinates, finite but for a run of `count` elements from `from`.
PositionElems(from, count, value) ==
  [k \in 1..Coordinates |->
     IF k >= from /\ k < from + count THEN value ELSE F32OfInt(k)]

\* The typed arrays readTypedTensor can have built for the coordinates.
PositionArrays ==
  {[cls |-> "Float32Array", elems |-> PositionElems(from, count, value)] :
     from \in 1..Coordinates, count \in 0..MaxBad, value \in {F32NaN, F32Inf}}
  \cup {[cls |-> "Uint8Array", elems |-> [k \in 1..Coordinates |-> 10 * k]],
        [cls |-> "Int32Array", elems |-> [k \in 1..Coordinates |-> 16777217 - k]],
        [cls |-> "BigInt64Array",
         elems |-> [k \in 1..Coordinates |-> [hi |-> 0, mid |-> 256, lo |-> k]]]}

DTypesOf(cls) ==
  CASE cls = "Float32Array" -> {"f32", "f16"}
    [] cls = "Uint8Array" -> {"u8"}
    [] cls = "Int32Array" -> {"i32"}
    [] cls = "BigInt64Array" -> {"i64"}

PositionShapes ==
  {<<IntDim(Triangles), IntDim(3), IntDim(3)>>,
   <<IntDim(3 * Triangles), IntDim(3)>>,
   <<IntDim(3 * Triangles), IntDim(1), IntDim(3)>>,
   <<IntDim(3 * Triangles), IntDim(3), IntDim(1)>>,
   <<>>}

PositionNames == {"triangles_points", "positions", "vertices"}

\* The options of a call, each after its default 'auto': all modes left
\* to the data, all forced to linear, all forced to the other reading.
ResolveOptions ==
  {[colorMode |-> "auto", opacityMode |-> "auto", sigmaMode |-> "auto"],
   [colorMode |-> "linear", opacityMode |-> "linear", sigmaMode |-> "linear"],
   [colorMode |-> "sh", opacityMode |-> "logits", sigmaMode |-> "log"]}

\* The model of the tensors [name, array, shape, dtype]: the arrays in
\* memory and the tensors object referring to them.
ModelOf(ts) ==
  [heap |-> [k \in 1..Len(ts) |-> ts[k].array],
   tensors |-> [k \in 1..Len(ts) |->
                  [name |-> ts[k].name,
                   record |-> [data |-> k, shape |-> ts[k].shape, dtype |-> ts[k].dtype]]]]

\* A model of one tensor, which may be the position tensor; a half tensor
\* decodes to finite values only.
PositionModels ==
  {ModelOf(<<[name |-> name, array |-> array, shape |-> shape, dtype |-> dtype]>>) :
     name \in PositionNames, shape \in PositionShapes,
     array \in PositionArrays, dtype \in {"f32", "f16", "u8", "i32", "i64"}}

\* n / 8 as a binary32 element.
F32OfEighths(n) ==
  IF n = 0 THEN F32Zero ELSE [F32OfInt(n) EXCEPT !.exp = @ - 3]

\* 2^-14, a positive number below 1e-4.
F32Tiny == [sign |-> 0, exp |-> 113, frac |-> 0]

F32Array(elems) == [cls |-> "Float32Array", elems |-> elems]

\* The position tensor of the models that follow: finite coordinates of
\* shape [Triangles, 3, 3].
PlainPositions(name, first) ==
  [name |-> name,
   array |-> F32Array([k \in 1..Coordinates |-> F32OfInt(first + k)]),
   shape |-> <<IntDim(Triangles), IntDim(3), IntDim(3)>>,
   dtype |-> "f32"]

\* The names the resolver looks for beside the position aliases, each with
\* the number of values per primitive of its field.
AppearanceNames ==
  <<"features_dc", "color_dc", "colors_dc", "color_rest",
    "opacity_alpha", "opacity", "alpha", "sigma">>

PerPrimitive(name) ==
  IF name \in {"features_dc", "color_dc", "colors_dc", "color_rest"} THEN 3 ELSE 1

\* A tensor of the name whose values tell its name: k / 8 for the k-th name.
NamedTensor(name) ==
  LET k == CHOOSE j \in 1..Len(AppearanceNames) : AppearanceNames[j] = name
      n == PerPrimitive(name) * Triangles
  IN  [name |-> name,
       array |-> F32Array([i \in 1..n |-> F32OfEighths(k)]),
       shape |-> <<IntDim(Triangles), IntDim(PerPrimitive(name))>>,
       dtype |-> "f32"]

\* Models for the alias lookup: the position tensor under one or two of its
\* aliases, and up to three of the other names.
AliasModels ==
  {ModelOf(positions
           \o [k \in 1..Len(SelectSeq(AppearanceNames, LAMBDA n : n \in present)) |->
                 NamedTensor(SelectSeq(AppearanceNames, LAMBDA n : n \in present)[k])]) :
     positions \in {<<PlainPositions("positions", 0)>>,
                    <<PlainPositions("triangle_points", 0)>>,
                    <<PlainPositions("positions", 0), PlainPositions("triangles_points", 1)>>,
                    <<PlainPositions("triangle_points", 1), PlainPositions("positions", 0)>>},
     present \in {p \in SUBSET {AppearanceNames[j] : j \in 1..Len(AppearanceNames)} :
                    Cardinality(p) <= 3}}

\* The arrays of length n that hold `base` but for `special` at one index.
PatternElems(n, bases, specials) ==
  {[i \in 1..n |-> IF i = at THEN special ELSE base] :
     base \in bases, special \in specials, at \in 1..n}

\* The raw values the policies are tried on.
RawSamples ==
  {F32NaN, F32Inf, [F32Inf EXCEPT !.sign = 1], F32Zero, F32Tiny,
   F32OfEighths(-16), F32OfEighths(-4), F32OfEighths(2), F32OfEighths(8),
   F32OfEighths(12), F32OfEighths(16), F32OfEighths(24)}

\* Colour tensors: float components of every sample, bytes, integers; of
\* three components per primitive, one fewer, one more, or none.
ColourTensors ==
  {[name |-> "features_dc", array |-> F32Array(elems),
    shape |-> <<IntDim(Len(elems))>>, dtype |-> dtype] :
     elems \in {<<>>}
               \cup PatternElems(3 * Triangles, {F32OfEighths(2), F32OfEighths(8)}, RawSamples)
               \cup PatternElems(3 * Triangles - 1, {F32OfEighths(4)}, RawSamples)
               \cup PatternElems(3 * Triangles + 1, {F32OfEighths(4)}, RawSamples),
     dtype \in {"f32"}}
  \cup
  {[name |-> "color_dc", array |-> [cls |-> "Uint8Array", elems |-> elems],
    shape |-> <<IntDim(Len(elems))>>, dtype |-> "u8"] :
     elems \in {<<>>} \cup PatternElems(3 * Triangles, {0, 255}, {1, 51, 128})}
  \cup
  {[name |-> "colors_dc", array |-> [cls |-> "Int32Array", elems |-> elems],
    shape |-> <<IntDim(Len(elems))>>, dtype |-> "i32"] :
     elems \in PatternElems(3 * Triangles, {0, 1}, {-1, 1, 2})}

\* Opacity and sigma tensors: one value per primitive, one more, or none.
ScalarTensors(name) ==
  {[name |-> name, array |-> F32Array(elems),
    shape |-> <<IntDim(Len(elems))>>, dtype |-> "f32"] :
     elems \in {<<>>}
               \cup PatternElems(Triangles, {F32OfEighths(2)}, RawSamples)
               \cup PatternElems(Triangles + 1, {F32OfEighths(2), F32OfEighths(8)}, RawSamples)}

\* Models for the decoding policies: the position tensor and one tensor of
\* colour, opacity or sigma.
AppearanceModels ==
  {ModelOf(<<PlainPositions("positions", 0), t>>) :
     t \in ColourTensors \cup ScalarTensors("opacity") \cup ScalarTensors("sigma")}

\* A number of primitives whose buffers are beyond what can be allocated.
HugeCount == Pow2(MantissaBits)

\* Position tensors without data: a zero among the dimensions, so that any
\* first dimension agrees with a byte length of 0.
EmptyPositions(count, tail) ==
  [name |-> "positions", array |-> F32Array(<<>>),
   shape |-> <<IntDim(count), IntDim(3), IntDim(3)>> \o tail, dtype |-> "f32"]

EmptyPositionModels ==
  {ModelOf(<<positions>> \o others) :
     positions \in {EmptyPositions(0, <<>>),
                    EmptyPositions(Triangles + 1, <<IntDim(0)>>),
                    EmptyPositions(HugeCount, <<IntDim(0)>>)},
     others \in {<<>>,
                 <<NamedTensor("color_dc")>>,
                 <<NamedTensor("alpha"), NamedTensor("sigma")>>}}

ResolverModels ==
  PositionModels \cup AliasModels \cup AppearanceModels \cup EmptyPositionModels

IdleResolve ==
  /\ heap = <<>>
  /\ heap0 = <<>>
  /\ rmodel = <<>>
  /\ rcalls = <<>>

\* A model as parseContainer returns them is in memory.
InitResolve ==
  /\ \E model \in ResolverModels :
       /\ \A k \in 1..Len(model.tensors) :
            LET array == model.heap[k]
                dtype == model.tensors[k].record.dtype
            IN  /\ dtype \in DTypesOf(array.cls)
                /\ dtype = "f16" => \A i \in 1..Len(array.elems) : IsFinite(array.elems[i])
       /\ heap = model.heap
       /\ rmodel = model.tensors
  /\ heap0 = heap
  /\ rcalls = <<>>

\* One call of resolveSemantics on the model; the caller keeps the outcome.
Resolve ==
  /\ Len(rcalls) < MaxCalls
  /\ \E options \in ResolveOptions :
       LET result == resolveSemantics(heap, rmodel, options)
       IN  /\ heap' = result.heap
           /\ rcalls' = Append(rcalls, [options |-> options, result |-> result])
  /\ UNCHANGED <<heap0, rmodel>>
  /\ UNCHANGED notResolve


(***************************************************************************)
(* Properties of the resolver.                                             *)
(***************************************************************************)
\* The references the model's tensors hold.
ModelRefs == {rmodel[k].record.data : k \in 1..Len(rmodel)}

\* What a caller can observe of an outcome: everything but the identity of
\* the arrays.
Observable(result) ==
  IF result.kind = "error" THEN [kind |-> "error", error |-> result.error]
  ELSE [kind |-> "semantic",
        positions |-> [tensorName |-> result.positions.tensorName,
                       values |-> result.positions.values,
                       shape |-> result.positions.shape],
        colorDC |-> result.colorDC,
        colorRest |-> result.colorRest,
        opacity |-> result.opacity,
        sigma |-> result.sigma,
        stats |-> result.stats]

\* C4: resolveSemantics leaves the Parsed Model unchanged: every tensor of the
\* model holds the values it held before the first call, and a call that
\* replaced position values returns a buffer that is not one of the model's.
C4_ModelUnchanged ==
  /\ \A ref \in ModelRefs : heap[ref] = heap0[ref]
  /\ \A c \in 1..Len(rcalls) :
       (/\ rcalls[c].result.kind = "semantic"
        /\ rcalls[c].result.stats.replacedPositionValues > 0)
         => rcalls[c].result.positions.data \notin ModelRefs

\* C5: two calls of resolveSemantics on the same model with the same options
\* return equal Semantic Data (replacedPositionValues included) or fail alike.
C5_SameModelSameResult ==
  \A c, d \in 1..Len(rcalls) :
    rcalls[c].options = rcalls[d].options
      => Observable(rcalls[c].result) = Observable(rcalls[d].result)

\* What does hold: a model whose position tensor is not a Float32Array is
\* left as it was, and the calls on it with the same options agree.
ConvertedModelIsLeftAlone ==
  (\A ref \in ModelRefs : heap0[ref].cls # "Float32Array")
    => /\ \A ref \in ModelRefs : heap[ref] = heap0[ref]
       /\ \A c, d \in 1..Len(rcalls) :
            rcalls[c].options = rcalls[d].options
              => Observable(rcalls[c].result) = Observable(rcalls[d].result)

\* The call's outcome and the tensors the model holds under each field's
\* aliases.
Present(aliases) == \E k \in 1..Len(aliases) : HasTensor(rmodel, aliases[k])

PositionShape == findTensor(rmodel, KEY_ALIASES_positions).record.shape

\* The position tensor's shape has three dimensions or more, the second and
\* the third of them 3.
ShapeIsSupported ==
  /\ Len(PositionShape) >= 3
  /\ PositionShape[2] = IntDim(3)
  /\ PositionShape[3] = IntDim(3)

\* C12: resolveSemantics fails in exactly two cases, MissingPositionTensor
\* when no position alias is present and UnsupportedShape when the position
\* shape has fewer than three dimensions or its second or third dimension
\* is not 3; in every other case it returns Semantic Data whose colorDC,
\* opacity and sigma are null exactly when their source tensor is absent,
\* and then their interpretation tag is 'none'.
C12_FailsInTwoCasesOnly ==
  \A c \in 1..Len(rcalls) :
    LET result == rcalls[c].result
    IN  IF ~Present(KEY_ALIASES_positions)
        THEN result.kind = "error" /\ result.error = "MissingPositionTensor"
        ELSE IF ~ShapeIsSupported
        THEN result.kind = "error" /\ result.error = "UnsupportedShape"
        ELSE /\ result.kind = "semantic"
             /\ (result.colorDC = Null) = ~Present(KEY_ALIASES_colorDC)
             /\ (result.opacity = Null) = ~Present(KEY_ALIASES_opacity)
             /\ (result.sigma = Null) = ~Present(KEY_ALIASES_sigma)
             /\ (result.colorDC = Null) = (result.stats.colorInterpretation = "none")
             /\ (result.opacity = Null) = (result.stats.opacityInterpretation = "none")
             /\ (result.sigma = Null) = (result.stats.sigmaInterpretation = "none")

\* What does hold: the same, for a model whose colour buffer, nine values
\* per primitive, can be allocated.
FailsInTwoCasesWhenAllocatable ==
  (Present(KEY_ALIASES_positions) /\ ShapeIsSupported
     => 9 * PositionShape[1].v <= MaxArrayLength)
    => C12_FailsInTwoCasesOnly

\* The first of the aliases the model has a tensor for.
RECURSIVE FirstPresent(_)
FirstPresent(aliases) ==
  IF aliases = <<>> THEN "undefined"
  ELSE IF HasTensor(rmodel, Head(aliases)) THEN Head(aliases)
  ELSE FirstPresent(Tail(aliases))

AliasLists ==
  {KEY_ALIASES_positions, KEY_ALIASES_colorDC, KEY_ALIASES_colorRest,
   KEY_ALIASES_opacity, KEY_ALIASES_sigma}

\* The model without the tensors that stand under an alias later than the
\* first present one of its field.
WithoutLaterAliases ==
  SelectSeq(rmodel,
            LAMBDA t : \A aliases \in AliasLists :
                         (\E k \in 1..Len(aliases) : aliases[k] = t.name)
                           => t.name = FirstPresent(aliases))

\* C13: for each field the first alias present in the model is the one
\* resolved and the later aliases are ignored: the first call on the model
\* returns what it returns on the model without the later aliases,
\* positions.tensorName and colorDC.tensorName name the first present alias,
\* and a field is null when none of its aliases is present.
C13_FirstPresentAliasWins ==
  rcalls # <<>> =>
    LET call == rcalls[1]
        alone == resolveSemantics(heap0, WithoutLaterAliases, call.options)
    IN  /\ Observable(call.result) = Observable(alone)
        /\ call.result.kind = "semantic" =>
             /\ call.result.positions.tensorName = FirstPresent(KEY_ALIASES_positions)
             /\ IF FirstPresent(KEY_ALIASES_colorDC) = "undefined"
                THEN call.result.colorDC = Null
                ELSE /\ call.result.colorDC # Null
                     /\ call.result.colorDC.tensorName = FirstPresent(KEY_ALIASES_colorDC)
             /\ IF FirstPresent(KEY_ALIASES_colorRest) = "undefined"
                THEN call.result.colorRest = Null
                ELSE /\ call.result.colorRest # Null
                     /\ call.result.colorRest.record
                          = ObjectGet(rmodel, FirstPresent(KEY_ALIASES_colorRest))
             /\ (call.result.opacity = Null)
                  = (FirstPresent(KEY_ALIASES_opacity) = "undefined")
             /\ (call.result.sigma = Null)
                  = (FirstPresent(KEY_ALIASES_sigma) = "undefined")

\* C13 happens: a model holds the position tensor under two aliases and the
\* opacity under two, and the call resolved the earlier of each.
C13_Witness ==
  /\ rcalls # <<>>
  /\ HasTensor(rmodel, "triangles_points") /\ HasTensor(rmodel, "positions")
  /\ HasTensor(rmodel, "opacity") /\ HasTensor(rmodel, "alpha")
  /\ rcalls[1].result.kind = "semantic"
  /\ rcalls[1].result.positions.tensorName = "triangles_points"
  /\ WithoutLaterAliases # rmodel

\* The values toFloat32Array reads from a tensor of the model.
RawOf(record) ==
  LET src == toFloat32Array(heap0, record.data)
      elems == src.heap[src.ref].elems
  IN  [i \in 1..Len(elems) |-> NumberOf(elems[i])]

\* v limited to [lo, hi], for a number v.
Limited(v, lo, hi) ==
  CASE v.kind = "inf" -> Fin(hi)
    [] v.kind = "ninf" -> Fin(lo)
    [] v.kind = "fin" -> Fin(IF v.u < lo THEN lo ELSE IF v.u > hi THEN hi ELSE v.u)

\* The colour tensor of the model, when it has one.
ColourRecord == ObjectGet(rmodel, FirstPresent(KEY_ALIASES_colorDC))

\* C14: the colour tag is 'u8' for dtype u8, whatever colorMode; otherwise
\* 'sh' when colorMode is 'sh' or when it is 'auto' and a raw component is
\* below 0 or above 1, and 'linear' in every other case, the empty tensor
\* included.  Every emitted component is, before the limit to [0,1], v / 255
\* under 'u8', v * 0.282095 + 0.5 under 'sh', and v under 'linear'.
C14_ColourInterpretation ==
  \A c \in 1..Len(rcalls) :
    LET result == rcalls[c].result
        mode == rcalls[c].options.colorMode
        raw == RawOf(ColourRecord)
        tag == IF ColourRecord.dtype = "u8" THEN "u8"
               ELSE IF \/ mode = "sh"
                       \/ mode = "auto" /\ \E i \in 1..Len(raw) :
                                              \/ NumLess(raw[i], Fin(0))
                                              \/ NumLess(Fin(1000000), raw[i])
               THEN "sh" ELSE "linear"
        expected(v) ==
          CASE v.kind # "fin" -> v
            [] tag = "u8" -> Fin((2 * v.u + 255) \div 510)
            [] tag = "sh" -> Fin(((v.u \div 1000) * 282095) \div 1000 + 500000)
            [] OTHER -> v
    IN  (result.kind = "semantic" /\ result.colorDC # Null) =>
          /\ result.colorDC.interpretation = tag
          /\ result.stats.colorInterpretation = tag
          /\ \A k \in 1..Len(result.colorDC.data) :
               LET i == ((k - 1) \div 9) * 3 + ((k - 1) % 3) + 1
               IN  (i <= Len(raw) /\ raw[i].kind # "nan") =>
                     result.colorDC.data[k] = Limited(expected(raw[i]), 0, 1000000)

\* C14 happens: in 'auto' a float colour tensor with one component outside
\* [0,1] was read as 'sh', and its component 0.25 became 0.570523.
C14_Witness ==
  \E c \in 1..Len(rcalls) :
    /\ rcalls[c].options.colorMode = "auto"
    /\ rcalls[c].result.kind = "semantic"
    /\ rcalls[c].result.colorDC # Null
    /\ ColourRecord.dtype = "f32"
    /\ rcalls[c].result.colorDC.interpretation = "sh"
    /\ \E i \in 2..Len(RawOf(ColourRecord)) : OutsideUnit(RawOf(ColourRecord)[i])
    /\ ~OutsideUnit(RawOf(ColourRecord)[1])
    /\ \E k \in 1..Len(rcalls[c].result.colorDC.data) :
         rcalls[c].result.colorDC.data[k] = Fin(570523)

\* The opacity and the sigma tensor of the model, when it has them.
OpacityRecord == ObjectGet(rmodel, FirstPresent(KEY_ALIASES_opacity))

SigmaRecord == ObjectGet(rmodel, FirstPresent(KEY_ALIASES_sigma))

\* C15: opacity is read as 'logits' iff opacityMode is 'logits' or it is
\* 'auto' and some raw value is below 0 or above 1, else as 'linear'; sigma
\* is read as 'log' iff sigmaMode is 'log' or it is 'auto' and some raw
\* value is <= 0, else as 'linear'.  So 'linear' is never overridden and the
\* empty tensor is 'linear' in 'auto'.  Every emitted value is, before the
\* limit, the one transform of its raw value: sigmoid(v) under 'logits',
\* 0.01 + exp(v) under 'log', v under 'linear'.
C15_OneInterpretationPerTensor ==
  \A c \in 1..Len(rcalls) :
    LET result == rcalls[c].result
        options == rcalls[c].options
        opacities == RawOf(OpacityRecord)
        sigmas == RawOf(SigmaRecord)
        logits == \/ options.opacityMode = "logits"
                  \/ /\ options.opacityMode = "auto"
                     /\ \E i \in 1..Len(opacities) :
                          \/ NumLess(opacities[i], Fin(0))
                          \/ NumLess(Fin(1000000), opacities[i])
        log == \/ options.sigmaMode = "log"
               \/ /\ options.sigmaMode = "auto"
                  /\ \E i \in 1..Len(sigmas) : NumLessEq(sigmas[i], Fin(0))
    IN  result.kind = "semantic" =>
          /\ result.opacity # Null =>
               /\ result.opacity.interpretation = IF logits THEN "logits" ELSE "linear"
               /\ result.stats.opacityInterpretation = result.opacity.interpretation
               /\ \A k \in 1..Len(result.opacity.data) :
                    LET t == (k - 1) \div 3 + 1
                    IN  (t <= Len(opacities) /\ opacities[t].kind # "nan") =>
                          result.opacity.data[k]
                            = Limited(IF logits THEN sigmoid(opacities[t]) ELSE opacities[t],
                                      0, 1000000)
          /\ result.sigma # Null =>
               /\ result.sigma.interpretation = IF log THEN "log" ELSE "linear"
               /\ result.stats.sigmaInterpretation = result.sigma.interpretation
               /\ \A k \in 1..Len(result.sigma.data) :
                    LET t == (k - 1) \div 3 + 1
                    IN  (t <= Len(sigmas) /\ sigmas[t].kind # "nan") =>
                          result.sigma.data[k]
                            = Limited(IF log THEN LogToSigma(sigmas[t]) ELSE sigmas[t],
                                      100, 10000000)

\* C15 happens: with opacityMode 'linear' an opacity tensor holding a value
\* above 1 was read as 'linear' and the value was emitted as 1.
C15_Witness ==
  \E c \in 1..Len(rcalls) :
    /\ rcalls[c].options.opacityMode = "linear"
    /\ rcalls[c].result.kind = "semantic"
    /\ rcalls[c].result.opacity # Null
    /\ rcalls[c].result.opacity.interpretation = "linear"
    /\ Len(RawOf(OpacityRecord)) >= 1
    /\ RawOf(OpacityRecord)[1] = Fin(1500000)
    /\ rcalls[c].result.opacity.data[1] = Fin(1000000)

\* Every value of the buffer is a number from lo to hi.
AllWithin(data, lo, hi) ==
  \A k \in 1..Len(data) :
    data[k].kind = "fin" /\ lo <= data[k].u /\ data[k].u <= hi

\* The emitted buffers of a result are within their ranges.
EmittedInRange(result) ==
  /\ result.colorDC # Null => AllWithin(result.colorDC.data, 0, Million)
  /\ result.opacity # Null => AllWithin(result.opacity.data, 0, Million)
  /\ result.sigma # Null => AllWithin(result.sigma.data, 100, 10 * Million)

\* C16: in every Semantic Data returned, for every raw value, finite or
\* not, and every mode, each emitted colour component and opacity value
\* lies in [0,1] and each emitted sigma value in [1e-4, 10].
C16_EmittedValuesInRange ==
  \A c \in 1..Len(rcalls) :
    rcalls[c].result.kind = "semantic" => EmittedInRange(rcalls[c].result)

\* What does hold: the emitted values are in range when no raw value of
\* colour, opacity or sigma is NaN; +Infinity and -Infinity are limited
\* like every other number.
EmittedInRangeWithoutNaN ==
  (\A name \in {FirstPresent(KEY_ALIASES_colorDC), FirstPresent(KEY_ALIASES_opacity),
                FirstPresent(KEY_ALIASES_sigma)} :
     name # "undefined" =>
       \A i \in 1..Len(RawOf(ObjectGet(rmodel, name))) :
         RawOf(ObjectGet(rmodel, name))[i].kind # "nan")
    => C16_EmittedValuesInRange

\* What the policies return for the model's tensors under the options.
DecodedColour(options) ==
  LET src == toFloat32Array(heap0, ColourRecord.data)
  IN  decodeColorDC(src.heap[src.ref].elems, ColourRecord.dtype, options.colorMode).values

DecodedOpacity(options) ==
  LET src == toFloat32Array(heap0, OpacityRecord.data)
  IN  applyOpacityPolicy(src.heap[src.ref].elems, options.opacityMode).values

DecodedSigma(options) ==
  LET src == toFloat32Array(heap0, SigmaRecord.data)
  IN  applySigmaPolicy(src.heap[src.ref].elems, options.sigmaMode).values

\* The buffer has `count` entries, and entry k is the decoded value of
\* index At(k), or `missing` where `total` holds and the decoded tensor has
\* no such value.
IsBroadcast(data, decoded, count, At(_), total, missing) ==
  /\ Len(data) = count
  /\ \A k \in 1..count :
       IF At(k) <= Len(decoded) THEN data[k] = decoded[At(k)]
       ELSE total /\ data[k] = missing

ColourAt(k) == ((k - 1) \div 9) * 3 + ((k - 1) % 3) + 1

ScalarAt(k) == (k - 1) \div 3 + 1

\* The counts and the three buffers of a result are the broadcast of the
\* decoded tensors over N primitives.
BroadcastOf(call, total) ==
  LET result == call.result
      N == result.positions.shape[1].v
  IN  /\ result.stats.triangleCount = N
      /\ result.stats.totalVertices = 3 * N
      /\ result.colorDC # Null =>
           IsBroadcast(result.colorDC.data, DecodedColour(call.options), 9 * N,
                       ColourAt, total, Fin(Million \div 2))
      /\ result.opacity # Null =>
           IsBroadcast(result.opacity.data, DecodedOpacity(call.options), 3 * N,
                       ScalarAt, total, Fin(Million))
      /\ result.sigma # Null =>
           IsBroadcast(result.sigma.data, DecodedSigma(call.options), 3 * N,
                       ScalarAt, total, Fin(Million \div 10))

\* C17 as stated: for a position shape [N,3,3], triangleCount = N and
\* totalVertices = 3N, colour has 9N entries with
\* colour[(3t+v)*3+c] = decoded[3t+c], opacity and sigma have 3N entries with
\* out[3t+v] = decoded[t], for every primitive t < N.
C17_BroadcastOfDecoded ==
  \A c \in 1..Len(rcalls) :
    rcalls[c].result.kind = "semantic" => BroadcastOf(rcalls[c], FALSE)

\* C17, amended: the same, but where the decoded tensor has no value for a
\* primitive, the entry is 0.5 for colour, 1 for opacity and 0.1 for sigma;
\* the three vertices of a primitive carry identical values in every case.
C17_BroadcastWithDefaults ==
  \A c \in 1..Len(rcalls) :
    LET result == rcalls[c].result
        Same(data, width) ==
          \A k \in 1..Len(data) :
            data[k] = data[((k - 1) \div (3 * width)) * 3 * width + ((k - 1) % width) + 1]
    IN  result.kind = "semantic" =>
          /\ BroadcastOf(rcalls[c], TRUE)
          /\ result.colorDC # Null => Same(result.colorDC.data, 3)
          /\ result.opacity # Null => Same(result.opacity.data, 1)
          /\ result.sigma # Null => Same(result.sigma.data, 1)

\* C17 happens: a colour tensor with fewer than three components per
\* primitive was broadcast, its last component filled in with 0.5.
C17_Witness ==
  \E c \in 1..Len(rcalls) :
    /\ rcalls[c].result.kind = "semantic"
    /\ rcalls[c].result.colorDC # Null
    /\ rcalls[c].result.stats.triangleCount = Triangles
    /\ Len(DecodedColour(rcalls[c].options)) = 3 * Triangles - 1
    /\ rcalls[c].result.colorDC.data[1] = Fin(Million \div 4)
    /\ rcalls[c].result.colorDC.data[4] = Fin(Million \div 4)
    /\ rcalls[c].result.colorDC.data[9 * Triangles] = Fin(Million \div 2)

\* What does hold: every call returns finite positions and counts the values
\* the model's buffer held non-finite when the call began.
PositionsReturnedAreFinite ==
  \A c \in 1..Len(rcalls) :
    rcalls[c].result.kind = "semantic"
      => \A k \in 1..Len(rcalls[c].result.positions.values) :
           IsFinite(rcalls[c].result.positions.values[k])

(***************************************************************************)
(* The round trip: an encoder writing the binary layout, then              *)
(* parseContainer.  The repository holds no encoder; this one follows the  *)
(* layout: 32-byte file header, JSON header, 32-byte TOC entries, data     *)
(* section of the concatenated tensor bytes, little-endian throughout.     *)
(***************************************************************************)
\* The little-endian bytes of an element.
BytesOfU16(n) == <<n % 256, n \div 256>>

BytesOfS32(n) ==
  <<n % 256, (n \div 256) % 256, (n \div 65536) % 256, (n \div 16777216) % 256>>

BytesOfI64(x) == BytesOfU16(x.lo) \o BytesOfU16(x.mid) \o BytesOfS32(x.hi)

BytesOfF32(x) ==
  <<x.frac % 256,
    (x.frac \div 256) % 256,
    (x.exp % 2) * 128 + x.frac \div 65536,
    x.sign * 128 + x.exp \div 2>>

BytesOfElement(dtype, x) ==
  CASE dtype = "u8" -> <<x>>
    [] dtype = "i32" -> BytesOfS32(x)
    [] dtype = "i64" -> BytesOfI64(x)
    [] dtype = "f32" -> BytesOfF32(x)

RECURSIVE BytesOfValues(_, _)
BytesOfValues(dtype, values) ==
  IF values = <<>> THEN <<>>
  ELSE BytesOfElement(dtype, Head(values)) \o BytesOfValues(dtype, Tail(values))

DTypeCode(dtype) ==
  CASE dtype = "f16" -> 1
    [] dtype = "f32" -> 2
    [] dtype = "u8" -> 3
    [] dtype = "i32" -> 4
    [] dtype = "i64" -> 5

\* The bytes of the tensors from index i on.
RECURSIVE DataSection(_, _)
DataSection(tensors, i) ==
  IF i > Len(tensors) THEN <<>>
  ELSE BytesOfValues(tensors[i].dtype, tensors[i].values) \o DataSection(tensors, i + 1)

\* The container written for the tensors [name, shape, dtype, values], with
\* a JSON header of headerLen bytes listing each tensor's name and shape at
\* its TOC position.
Encode(tensors, headerLen) ==
  LET data == DataSection(tensors, 1)
      tocLen == TOC_ENTRY_SIZE * Len(tensors)
      sizeOf(i) == DTYPE_BYTES(tensors[i].dtype) * Len(tensors[i].values)
  IN  [buf |-> [len |-> FILE_HEADER_SIZE + headerLen + tocLen + Len(data),
                magic |-> "TGSP",
                version |-> 1,
                headerLen |-> headerLen,
                tocLen |-> tocLen,
                json |-> [kind |-> "array", n |-> Len(tensors)],
                data |-> data],
       toc |-> [i \in 1..Len(tensors) |->
                  [relOffset |-> Len(data) - Len(DataSection(tensors, i)),
                   nbytes |-> sizeOf(i),
                   dtypeCode |-> DTypeCode(tensors[i].dtype)]],
       defs |-> [i \in 1..Len(tensors) |->
                   [hasName |-> TRUE, name |-> tensors[i].name,
                    hasShape |-> TRUE,
                    shape |-> [d \in 1..Len(tensors[i].shape) |->
                                 IntDim(tensors[i].shape[d])]]]]

MaxTensors == 2

\* Values of each dtype, with a shape of theirs: a byte tensor of odd length
\* leaves what follows unaligned.
Payloads ==
  {[dtype |-> "u8", shape |-> <<3>>, values |-> <<7, 0, 255>>],
   [dtype |-> "u8", shape |-> <<0, 4>>, values |-> <<>>],
   [dtype |-> "i32", shape |-> <<1, 2>>, values |-> <<-2, 16909060>>],
   [dtype |-> "i64", shape |-> <<1>>,
    values |-> <<[hi |-> -1, mid |-> 65535, lo |-> 65279]>>],
   [dtype |-> "f32", shape |-> <<2>>,
    values |-> <<[sign |-> 1, exp |-> 255, frac |-> 4194305], F32OfInt(3)>>],
   [dtype |-> "f32", shape |-> <<>>, values |-> <<F32Inf>>]}

TensorNames == {"a", "b", "__proto__"}

TensorsToEncode ==
  {[name |-> name, shape |-> p.shape, dtype |-> p.dtype, values |-> p.values] :
     name \in TensorNames, p \in Payloads}

NoContainer == Encode(<<>>, 0)

IdleRoundTrip ==
  /\ estage = "idle"
  /\ ein = [tensors |-> <<>>, headerLen |-> 0]
  /\ eenc = NoContainer
  /\ eout = NoOutcome

\* A list of tensors is given, and a length for the JSON header.
InitRoundTrip ==
  /\ estage = "given"
  /\ \E tensors \in SeqsUpTo(TensorsToEncode, MaxTensors), pad \in 0..MaxHeaderPad :
       ein = [tensors |-> tensors, headerLen |-> MinHeaderLen + pad]
  /\ eenc = NoContainer
  /\ eout = NoOutcome

\* The encoder writes the container.
EncodeTensors ==
  /\ estage = "given"
  /\ estage' = "encoded"
  /\ eenc' = Encode(ein.tensors, ein.headerLen)
  /\ UNCHANGED <<ein, eout>>
  /\ UNCHANGED notRoundTrip

\* parseContainer reads it back.
ParseEncoded ==
  /\ estage = "encoded"
  /\ estage' = "parsed"
  /\ eout' = parseContainer(eenc.buf, eenc.toc, eenc.defs, "TGSP")
  /\ UNCHANGED <<ein, eenc>>
  /\ UNCHANGED notRoundTrip

(***************************************************************************)
(* Properties of the round trip.                                           *)
(***************************************************************************)
\* The tensor at index i is the last of the list with its name.
LastOfItsName(tensors, i) ==
  \A j \in (i + 1)..Len(tensors) : tensors[j].name # tensors[i].name

\* The model holds the tensor under its name, with its shape, dtype and values.
Recovered(model, tensor) ==
  /\ HasTensor(model.tensors, tensor.name)
  /\ LET record == ObjectGet(model.tensors, tensor.name)
     IN  /\ record.shape = [d \in 1..Len(tensor.shape) |-> IntDim(tensor.shape[d])]
         /\ record.dtype = tensor.dtype
         /\ record.data.elems = tensor.values

\* C9: parsing the container encoded for a list of tensors returns a model
\* whose tensors have the names, shapes, dtypes and exact values of the list,
\* for every length of the JSON header.  Of tensors sharing a name the model
\* is asked to hold the last only.
C9_RoundTrip ==
  estage = "parsed"
    => /\ eout.kind = "model"
       /\ \A i \in 1..Len(ein.tensors) :
            LastOfItsName(ein.tensors, i) => Recovered(eout, ein.tensors[i])
       /\ {eout.tensors[k].name : k \in 1..Len(eout.tensors)}
            = {ein.tensors[i].name : i \in 1..Len(ein.tensors)}

\* What does hold: the round trip of the tensors whose name is not
\* "__proto__"; the parse succeeds for every list.
RoundTripOfOrdinaryNames ==
  estage = "parsed"
    => /\ eout.kind = "model"
       /\ \A i \in 1..Len(ein.tensors) :
            (LastOfItsName(ein.tensors, i) /\ ein.tensors[i].name # "__proto__")
              => Recovered(eout, ein.tensors[i])

(***************************************************************************)
(* The half-precision decoder on its own: float16ToFloat32 applied to a    *)
(* 16-bit pattern.                                                         *)
(***************************************************************************)
HalfPatterns == 0..65535

IdleHalf ==
  /\ hstage = "idle"
  /\ hin = 0
  /\ hout = [sign |-> 0, exp |-> 0, frac |-> 0]

\* A pattern is given.
InitHalf ==
  /\ hstage = "idle"
  /\ hin \in HalfPatterns
  /\ hout = [sign |-> 0, exp |-> 0, frac |-> 0]

\* One call of float16ToFloat32.
DecodeHalf ==
  /\ hstage = "idle"
  /\ hstage' = "done"
  /\ hout' = float16ToFloat32(hin)
  /\ UNCHANGED hin
  /\ UNCHANGED notHalf

(***************************************************************************)
(* Properties of the half-precision decoder.  A binary32 element x is the  *)
(* number (-1)^sign * F32Mantissa(x) * 2^F32Pow(x).                        *)
(***************************************************************************)
F32Mantissa(x) == IF x.exp = 0 THEN x.frac ELSE 8388608 + x.frac
F32Pow(x) == IF x.exp = 0 THEN -149 ELSE x.exp - 150

\* x is the number (-1)^negative * a * 2^p, for a < 2^11; zero has no sign.
IsNumber(x, negative, a, p) ==
  /\ x.exp # 255
  /\ IF a = 0 THEN F32Mantissa(x) = 0
     ELSE /\ x.sign = negative
          /\ p >= F32Pow(x) /\ p - F32Pow(x) <= 30
          /\ F32Mantissa(x) = a * Pow2(p - F32Pow(x))

\* |x| <= 65504 = 2^15 * (1 + 1023/1024).
MagnitudeAtMost65504(x) ==
  \/ x.exp < 142
  \/ x.exp = 142 /\ x.frac <= 1023 * 8192

\* C11: every 16-bit pattern decodes to a finite number of magnitude at most
\* 65504: exponent field 31 to +-65504 by the sign bit, exponent field 0 to
\* sign * 2^-14 * m/1024, every other to sign * 2^(e-15) * (1 + m/1024);
\* 0x3C00 to 1, 0x0000 to 0, 0xC000 to -2, 0x7C00 to 65504, 0xFC00 to -65504.
C11_HalfDecodesSaturating ==
  hstage = "done" =>
    LET s == hin \div 32768
        e == (hin \div 1024) % 32
        m == hin % 1024
    IN  /\ MagnitudeAtMost65504(hout)
        /\ e = 31 => IsNumber(hout, s, 2047, 5)
        /\ e = 0 => IsNumber(hout, s, m, -24)
        /\ (e # 0 /\ e # 31) => IsNumber(hout, s, 1024 + m, e - 25)
        /\ hin = 15360 => IsNumber(hout, 0, 1, 0)
        /\ hin = 0 => IsNumber(hout, 0, 0, 0)
        /\ hin = 49152 => IsNumber(hout, 1, 2, 0)
        /\ hin = 31744 => IsNumber(hout, 0, 2047, 5)
        /\ hin = 64512 => IsNumber(hout, 1, 2047, 5)

\* C11's case: the pattern of negative infinity, with a set mantissa bit
\* besides, has been decoded to -65504.
C11_Witness ==
  /\ hstage = "done"
  /\ hin = 64513
  /\ hout = [sign |-> 1, exp |-> 142, frac |-> 1023 * 8192]

(***************************************************************************)
(* formatLoader: FormatLoader.parse, the detector followed by the parser   *)
(* of the dialect detected.  The first bytes of a buffer are the           *)
(* characters of its tag; the bytes after them take no part.               *)
(***************************************************************************)
\* The four bytes a tag is written as.
TagBytes(magic) ==
  CASE magic = "TGSP" -> <<"T", "G", "S", "P">>
    [] magic = "TSGD" -> <<"T", "S", "G", "D">>
    [] magic = "TGSD" -> <<"T", "G", "S", "D">>
    [] magic = "glTF" -> <<"g", "l", "T", "F">>
    [] OTHER -> <<>>

\* The bytes of a buffer that detectFormat and getMagic look at: the first
\* four, or all of a shorter buffer.
HeadBytes(buf) ==
  IF buf.len >= 4 THEN TagBytes(buf.magic)
  ELSE [k \in 1..buf.len |-> "T"]

\* parseTGSP(buffer).
parseTGSP(buf, toc, defs) == parseContainer(buf, toc, defs, "TGSP")

\* parseTSGD(buffer, magic).
parseTSGD(buf, toc, defs, magic) == parseContainer(buf, toc, defs, magic)

\* FormatLoader.parse with parseTSGD called without the tag, so that its
\* default, TSGD, is the tag expected.
FormatLoaderParseByDefaultTag(buf, toc, defs) ==
  LET detected == detectFormat(HeadBytes(buf))
  IN  IF detected.kind = "error"
      THEN [detected |-> detected, outcome |-> Thrown(detected.error, -1)]
      ELSE IF detected.parser = "tgsp"
      THEN [detected |-> detected, outcome |-> parseTGSP(buf, toc, defs)]
      ELSE IF detected.parser = "tsgd"
      THEN [detected |-> detected, outcome |-> parseTSGD(buf, toc, defs, "TSGD")]
      ELSE [detected |-> detected, outcome |-> Thrown("NoParser", -1)]

\* FormatLoader.parse(buffer): what detectFormat gave, and the model
\* returned or the error thrown.
FormatLoaderParse(buf, toc, defs) ==
  LET detected == detectFormat(HeadBytes(buf))
  IN  IF detected.kind = "error"
      THEN [detected |-> detected, outcome |-> Thrown(detected.error, -1)]
      ELSE IF detected.parser = "tgsp"
      THEN [detected |-> detected, outcome |-> parseTGSP(buf, toc, defs)]
      ELSE IF detected.parser = "tsgd"
      THEN [detected |-> detected, outcome |-> parseTSGD(buf, toc, defs, detected.magic)]
      ELSE [detected |-> detected, outcome |-> Thrown("NoParser", -1)]

\* The buffers handed to FormatLoader.parse: every buffer of the parser's
\* specification, its TOC entries all alike.
LoaderInputs ==
  { [buf |-> buf,
     toc |-> [k \in 1..(buf.tocLen \div TOC_ENTRY_SIZE) |-> e[1]],
     defs |-> [k \in 1..(buf.tocLen \div TOC_ENTRY_SIZE) |-> e[2]]] :
      <<buf, e>> \in Buffers \X (Entries({0}, {0, MaxData \div 2}, {0, 3}) \X {NoDef}) }

IdleLoader ==
  /\ lstage = "idle"
  /\ lin = [buf |-> CHOOSE b \in ShortBuffers : b.len = 0, toc |-> <<>>, defs |-> <<>>]
  /\ lout = [detected |-> [kind |-> "none"], outcome |-> NoOutcome]

\* A buffer is in memory.
InitLoader ==
  /\ lstage = "idle"
  /\ lin \in LoaderInputs
  /\ lout = [detected |-> [kind |-> "none"], outcome |-> NoOutcome]

\* One call of FormatLoader.parse.
LoaderParse ==
  /\ lstage = "idle"
  /\ lstage' = "done"
  /\ lout' = FormatLoaderParse(lin.buf, lin.toc, lin.defs)
  /\ UNCHANGED lin
  /\ UNCHANGED notLoader

(***************************************************************************)
(* Properties of FormatLoader.parse.                                       *)
(***************************************************************************)
\* The tags detectFormat knows.
KnownTag(buf) == buf.len >= 4 /\ buf.magic \in {"TGSP", "TSGD", "TGSD"}

\* The tag the container parser was told to expect.
ExpectedTag == IF lout.detected.parser = "tgsp" THEN "TGSP" ELSE lout.detected.magic

\* C21: FormatLoader.parse never ends with the bad-magic error.  A buffer of
\* fewer than 4 bytes, or one whose tag is none of TGSP, TSGD and TGSD, fails
\* in the detector and the parser is not called; for every other buffer the
\* parser is called with the tag the buffer holds, so that the magic check
\* cannot fail, and neither has it failed when the call ends with a later
\* error; a model returned has the format the detector gave, TGSP for the
\* tag TGSP and TSGD for the tags TSGD and TGSD.
C21_DetectedMagicIsExpected ==
  lstage = "done" =>
    /\ lout.outcome.kind \in {"error", "model"}
    /\ ~(lout.outcome.kind = "error" /\ lout.outcome.error = "BadMagic")
    /\ lin.buf.len < 4 =>
         /\ lout.detected = [kind |-> "error", error |-> "BufferTooSmall"]
         /\ lout.outcome = Thrown("BufferTooSmall", -1)
    /\ (lin.buf.len >= 4 /\ ~KnownTag(lin.buf)) =>
         /\ lout.detected = [kind |-> "error", error |-> "UnsupportedFormat"]
         /\ lout.outcome = Thrown("UnsupportedFormat", -1)
    /\ KnownTag(lin.buf) =>
         /\ lout.detected.kind = "detected"
         /\ lout.detected.magic = lin.buf.magic
         /\ ExpectedTag = lin.buf.magic
         /\ lout.outcome = parseContainer(lin.buf, lin.toc, lin.defs, ExpectedTag)
         /\ lout.outcome.kind = "error" =>
              lout.outcome.error \notin {"BadMagic", "UnsupportedFormat", "NoParser"}
         /\ (lout.outcome.kind = "error" /\ lin.buf.len >= FILE_HEADER_SIZE) =>
              lout.outcome.error # "BufferTooSmall"
    /\ lout.outcome.kind = "model" =>
         /\ KnownTag(lin.buf)
         /\ lout.outcome.format = lout.detected.format
         /\ lout.outcome.metadata.format = lout.detected.format
         /\ lout.outcome.format = (IF lin.buf.magic = "TGSP" THEN "TGSP" ELSE "TSGD")

\* A buffer tagged TGSD, with a tensor, is returned as a model of the format
\* TSGD.
C21_Witness ==
  /\ lstage = "done"
  /\ lin.buf.magic = "TGSD"
  /\ lout.detected.magic = "TGSD"
  /\ lout.outcome.kind = "model"
  /\ lout.outcome.format = "TSGD"
  /\ Len(lout.outcome.tensors) >= 1

(***************************************************************************)
(* viewer: TriangleSplattingViewer.  Its handlers run one at a time on the *)
(* event loop; loadFile is async and gives way once, while it awaits the   *)
(* file.  Renderables are objects: the scene holds them by identity.       *)
(* Camera and lights, which keep no state the handlers read, are left out. *)
(***************************************************************************)
MaxBuilt == 3
MaxPending == 2
MaxFiles == 2

\* renderers/meshRenderer, createMeshRenderable(semanticData): a renderable
\* of mode 'mesh', without setSplatParams.  `file` is the file whose tensors
\* its geometry holds.
createMeshRenderable(semanticData, id) ==
  [kind |-> "renderable",
   id |-> id,
   file |-> semanticData.file,
   mode |-> "mesh",
   attributes |-> {"position"}
                    \cup (IF semanticData.colorDC THEN {"color"} ELSE {})
                    \cup (IF semanticData.opacity THEN {"alpha"} ELSE {}),
   uniforms |-> Null,
   stats |-> [triangles |-> semanticData.triangleCount,
              points |-> 3 * semanticData.triangleCount]]

\* createSplatRenderable without the check of lines 39-41.
createSplatRenderableUnchecked(semanticData, id) ==
  [kind |-> "renderable",
   id |-> id,
   file |-> semanticData.file,
   mode |-> "splat",
   attributes |-> {"position", "color", "alpha", "splatSigma", "barycentric"},
   uniforms |-> [uSigmaScale |-> 35, uAlphaCurveK |-> 100, uCoveredAlphaFloor |-> 0],
   stats |-> [triangles |-> semanticData.triangleCount,
              points |-> 3 * semanticData.triangleCount]]

\* renderers/splatRenderer, createSplatRenderable(semanticData): throws
\* without DC colour, else a renderable of mode 'splat'.
createSplatRenderable(semanticData, id) ==
  IF ~semanticData.colorDC
  THEN [kind |-> "error", message |-> "Splat mode requires DC color tensor"]
  ELSE [kind |-> "renderable",
        id |-> id,
        file |-> semanticData.file,
        mode |-> "splat",
        attributes |-> {"position", "color", "alpha", "splatSigma", "barycentric"},
        uniforms |-> [uSigmaScale |-> 35, uAlphaCurveK |-> 100, uCoveredAlphaFloor |-> 0],
        stats |-> [triangles |-> semanticData.triangleCount,
                   points |-> 3 * semanticData.triangleCount]]

Between(lo, v, hi) == IF v < lo THEN lo ELSE IF v > hi THEN hi ELSE v

\* setSplatParams(params) of a splat renderable, in hundredths.
setSplatParams(renderable, params) ==
  [renderable EXCEPT
     !.uniforms = [uAlphaCurveK |-> Between(100, params.alphaCurveK, 100000),
                   uSigmaScale |-> Between(1, params.sigmaScale, 200),
                   uCoveredAlphaFloor |-> Between(0, params.coveredAlphaFloor, 80)]]

\* applySplatSettings(): only a splat renderable has setSplatParams.
applySplatSettings(renderable, settings) ==
  IF renderable = Null \/ renderable.mode # "splat" THEN renderable
  ELSE setSplatParams(renderable, settings)

\* showLoading(show, text = 'Loading...').
showLoading(show, text) ==
  [display |-> IF show THEN "block" ELSE "none", text |-> text]

\* The viewer's fields and the page's elements the handlers work on.
View ==
  [semanticData |-> vsemantic, select |-> vselect, settings |-> vsettings,
   scene |-> vscene, renderable |-> vrenderable, stats |-> vstats,
   loading |-> vloading, status |-> vstatus,
   disposed |-> vdisposed, ops |-> <<>>]

\* One entry of `ops`: the operation and the renderables it is made on.
Op(op, ids) == [op |-> op, ids |-> ids]

\* clearRenderable() without line 225: the renderable is disposed of and
\* stays in the scene.
clearRenderableKeepingScene(view) ==
  IF view.renderable = Null THEN view
  ELSE [view EXCEPT
          !.disposed = @ \cup {view.renderable.id},
          !.ops = @ \o <<Op("dispose", {view.renderable.id})>>,
          !.renderable = Null]

\* clearRenderable(): the renderable leaves the scene and is disposed of.
clearRenderable(view) ==
  IF view.renderable = Null THEN view
  ELSE [view EXCEPT
          !.scene = @ \ {view.renderable.id},
          !.disposed = @ \cup {view.renderable.id},
          !.ops = @ \o <<Op("remove", {view.renderable.id}),
                         Op("dispose", {view.renderable.id})>>,
          !.renderable = Null]

\* applyRenderMode(): the view after the call and how the call ended.  `id`
\* is the identity of the renderable it builds.
applyRenderMode(view, id) ==
  IF view.semanticData = Null THEN [view |-> view, ended |-> "skipped"]
  ELSE
    LET mode == view.select
        cleared == clearRenderable(view)
        splat == createSplatRenderable(view.semanticData, id)
        built == IF mode = "splat" /\ splat.kind = "renderable" THEN splat
                 ELSE createMeshRenderable(view.semanticData, id)
        status == IF mode # "splat" THEN "Rendering with mesh mode"
                  ELSE IF splat.kind = "renderable"
                  THEN "Rendering with experimental splat mode"
                  ELSE "Splat unavailable (" \o splat.message \o "); fallback to mesh"
    IN  [view |-> [cleared EXCEPT
                     !.status = status,
                     !.renderable = applySplatSettings(built, view.settings),
                     !.scene = @ \cup {built.id},
                     !.ops = @ \o <<Op("add", {built.id})>>
                               \o (IF built.mode = "splat"
                                   THEN <<Op("setSplatParams", {built.id})>> ELSE <<>>),
                     !.stats = built.stats,
                     !.loading = showLoading(FALSE, "Loading...")],
         ended |-> "returned"]

\* The Semantic Data resolveSemantics can hand to the viewer, as far as the
\* renderers read it.
ViewerSemantics ==
  [colorDC : BOOLEAN, opacity : BOOLEAN, triangleCount : {0, Triangles}]

\* The Parsed Models FormatLoader.loadFile can give for a file, as far as
\* the viewer's path reads them: with a triangle positions tensor and the
\* appearance tensors that resolve to some Semantic Data, or without one.
ViewerModels(file) ==
  {[file |-> file, positions |-> TRUE, colorDC |-> sd.colorDC,
    opacity |-> sd.opacity, triangleCount |-> sd.triangleCount] :
      sd \in ViewerSemantics}
    \cup {[file |-> file, positions |-> FALSE, colorDC |-> FALSE,
           opacity |-> FALSE, triangleCount |-> 0]}

\* resolveSemantics(modelData, {opacityMode: 'auto'}) as the viewer sees it:
\* the Semantic Data of the model's file, or the error thrown when no
\* triangle positions tensor is found.
resolveSemanticsOf(modelData) ==
  IF ~modelData.positions
  THEN [kind |-> "error", message |-> "Missing position tensor"]
  ELSE [kind |-> "semantic", file |-> modelData.file, colorDC |-> modelData.colorDC,
        opacity |-> modelData.opacity, triangleCount |-> modelData.triangleCount]

RenderModes == {"splat", "mesh"}

\* Values of the three sliders, in hundredths.
SliderValues ==
  [alphaCurveK : {100, 50}, sigmaScale : {35, 300}, coveredAlphaFloor : {0, 90}]

\* The viewer after its constructor, on a page whose select shows 'splat'.
IdleViewer ==
  /\ vmodel = Null
  /\ vsemantic = Null
  /\ vselect = "splat"
  /\ vsettings = [alphaCurveK |-> 100, sigmaScale |-> 35, coveredAlphaFloor |-> 0]
  /\ vscene = {}
  /\ vrenderable = Null
  /\ vstats = [triangles |-> 0, points |-> 0]
  /\ vloading = showLoading(FALSE, "Loading...")
  /\ vstatus = ""
  /\ vloads = <<>>
  /\ vbuilt = 0
  /\ vlast = [handler |-> "constructor", ended |-> "none", mode |-> "none"]
  /\ vdisposed = {}
  /\ vops = <<>>

\* The view is written back to the viewer.
ViewBecomes(view) ==
  /\ vsemantic' = view.semanticData
  /\ vselect' = view.select
  /\ vsettings' = view.settings
  /\ vscene' = view.scene
  /\ vrenderable' = view.renderable
  /\ vstats' = view.stats
  /\ vloading' = view.loading
  /\ vstatus' = view.status
  /\ vdisposed' = view.disposed
  /\ vops' = view.ops

\* The 'change' handler of the select: applyRenderMode() under the mode
\* now selected.
ChangeRenderMode ==
  /\ vbuilt < MaxBuilt
  /\ \E mode \in RenderModes \ {vselect} :
       LET applied == applyRenderMode([View EXCEPT !.select = mode], vbuilt + 1)
       IN  /\ ViewBecomes(applied.view)
           /\ vbuilt' = IF applied.ended = "returned" THEN vbuilt + 1 ELSE vbuilt
           /\ vlast' = [handler |-> "change", ended |-> applied.ended, mode |-> mode]
  /\ UNCHANGED <<vmodel, vloads>>
  /\ UNCHANGED notViewer

\* The 'input' handlers of the three sliders: the setting is stored and
\* applySplatSettings() passes the settings to a splat renderable.
InputSplatSetting ==
  /\ \E settings \in SliderValues :
       /\ settings # vsettings
       /\ \E name \in DOMAIN settings :
            \A other \in DOMAIN settings \ {name} : settings[other] = vsettings[other]
       /\ vsettings' = settings
       /\ vrenderable' = applySplatSettings(vrenderable, settings)
  /\ vlast' = [handler |-> "input", ended |-> "none", mode |-> "none"]
  /\ vops' = IF vrenderable # Null /\ vrenderable.mode = "splat"
             THEN <<Op("setSplatParams", {vrenderable.id})>> ELSE <<>>
  /\ UNCHANGED <<vdisposed, vmodel, vsemantic, vselect, vscene, vstats, vloading, vstatus, vloads, vbuilt>>
  /\ UNCHANGED notViewer

\* animate(): one animation frame.  A renderable with a render function
\* renders itself, drawing the scene into its target; else the renderer
\* draws the scene.
Animate ==
  /\ vops' = IF vrenderable # Null /\ vrenderable.mode = "splat"
             THEN <<Op("render", {vrenderable.id}), Op("draw", vscene)>>
             ELSE <<Op("draw", vscene)>>
  /\ vlast' = [handler |-> "animate", ended |-> "none", mode |-> "none"]
  /\ UNCHANGED <<vmodel, vsemantic, vselect, vsettings, vscene, vrenderable, vstats,
                 vloading, vstatus, vloads, vbuilt, vdisposed>>
  /\ UNCHANGED notViewer

\* The calls of loadFile that await their file.
Pending == {f \in 1..Len(vloads) : vloads[f].ended = "awaiting"}

\* loadFile(event) up to its await, lines 132-143, for the next file
\* selected.  `during` holds the earlier calls that await their file then.
LoadFileBegin ==
  /\ Len(vloads) < MaxFiles
  /\ Cardinality(Pending) < MaxPending
  /\ vloading' = showLoading(TRUE, "Parsing file...")
  /\ vstatus' = "Loading file"
  /\ vloads' = Append(vloads, [ended |-> "awaiting", during |-> Pending])
  /\ vlast' = [handler |-> "loadFile", ended |-> "none", mode |-> "none"]
  /\ vops' = <<>>
  /\ UNCHANGED <<vmodel, vsemantic, vselect, vsettings, vscene, vrenderable, vstats, vbuilt, vdisposed>>
  /\ UNCHANGED notViewer

\* loadFile after its await when FormatLoader.loadFile rejects, the file
\* being unreadable or no container: line 143 assigns nothing and the catch
\* of lines 158-164 runs.
LoadFileFails ==
  /\ \E file \in Pending :
       vloads' = [vloads EXCEPT ![file].ended = "failed"]
  /\ vloading' = showLoading(FALSE, "Loading...")
  /\ vstatus' = "Load error"
  /\ vlast' = [handler |-> "loadFile", ended |-> "none", mode |-> "none"]
  /\ vops' = <<>>
  /\ UNCHANGED <<vmodel, vsemantic, vselect, vsettings, vscene, vrenderable, vstats, vbuilt, vdisposed>>
  /\ UNCHANGED notViewer

\* loadFile after its await when the file is parsed and resolveSemantics
\* throws: line 143 has assigned this.modelData, line 147 assigns nothing
\* and the catch of lines 158-164 runs.
LoadFileUnresolved ==
  /\ \E file \in Pending :
       \E modelData \in ViewerModels(file) :
         /\ resolveSemanticsOf(modelData).kind = "error"
         /\ vmodel' = modelData
         /\ vloads' = [vloads EXCEPT ![file].ended = "failed"]
  /\ vloading' = showLoading(FALSE, "Loading...")
  /\ vstatus' = "Load error"
  /\ vlast' = [handler |-> "loadFile", ended |-> "none", mode |-> "none"]
  /\ vops' = <<>>
  /\ UNCHANGED <<vsemantic, vselect, vsettings, vscene, vrenderable, vstats, vbuilt, vdisposed>>
  /\ UNCHANGED notViewer

\* loadFile after its await when the model is parsed and resolved: lines
\* 143-157.
LoadFileResolves ==
  /\ vbuilt < MaxBuilt
  /\ \E file \in Pending :
       \E modelData \in ViewerModels(file) :
         LET semanticData == resolveSemanticsOf(modelData)
             applied == applyRenderMode([View EXCEPT !.semanticData = semanticData],
                                        vbuilt + 1)
         IN  /\ semanticData.kind = "semantic"
             /\ vmodel' = modelData
             /\ ViewBecomes([applied.view EXCEPT !.loading = showLoading(FALSE, "Loading...")])
             /\ vloads' = [vloads EXCEPT ![file].ended = "loaded"]
             /\ vlast' = [handler |-> "loadFile", ended |-> applied.ended, mode |-> vselect]
  /\ vbuilt' = vbuilt + 1
  /\ UNCHANGED notViewer

(***************************************************************************)
(* Properties of the viewer.                                               *)
(***************************************************************************)
\* C19: when the mode selected is 'splat' and the splat renderable cannot be
\* built, the Semantic Data having no DC colour, applyRenderMode falls back
\* to mesh: it returns without an error, the scene holds exactly one
\* renderable, of mode 'mesh', and the loading overlay is hidden.
C19_SplatFallsBackToMesh ==
  (/\ vlast.ended \in {"returned", "thrown"}
   /\ vlast.mode = "splat"
   /\ ~vsemantic.colorDC)
    => /\ vlast.ended = "returned"
       /\ vrenderable # Null
       /\ vrenderable.mode = "mesh"
       /\ vscene = {vrenderable.id}
       /\ vloading.display = "none"

\* C19 happens: a splat renderable was in the scene when a model without DC
\* colour was loaded, and the viewer fell back to mesh.
C19_Witness ==
  /\ vlast = [handler |-> "loadFile", ended |-> "returned", mode |-> "splat"]
  /\ ~vsemantic.colorDC
  /\ vbuilt >= 2
  /\ vrenderable.mode = "mesh"
  /\ vstatus = "Splat unavailable (Splat mode requires DC color tensor); fallback to mesh"

\* modelData and semanticData stem from the same file, or are both null.
ModelAndSemanticsOfOneFile ==
  IF vmodel = Null \/ vsemantic = Null THEN vmodel = Null /\ vsemantic = Null
  ELSE vmodel.file = vsemantic.file

\* C22: a call of loadFile that fails, in reading or parsing the file or in
\* resolving its semantics, leaves modelData, semanticData, the renderable
\* and the scene as they were, so that at all times modelData and
\* semanticData stem from the same file.
C22_FailedLoadLeavesViewer ==
  /\ []ModelAndSemanticsOfOneFile
  /\ [][(LoadFileFails \/ LoadFileUnresolved)
          => UNCHANGED <<vmodel, vsemantic, vrenderable, vscene>>]_vars

\* C23: when a file is selected while an earlier call of loadFile awaits its
\* file and both calls have ended with their file loaded, then modelData,
\* semanticData and the renderable are those of the file selected last,
\* whichever of the two reads completed first.
C23_LatestSelectedFileWins ==
  \A earlier, latest \in 1..Len(vloads) :
    (/\ latest = Len(vloads)
     /\ earlier \in vloads[latest].during
     /\ vloads[earlier].ended = "loaded"
     /\ vloads[latest].ended = "loaded")
      => /\ vmodel.file = latest
         /\ vsemantic.file = latest
         /\ vrenderable # Null
         /\ vrenderable.file = latest

\* The scene holds at most one renderable's object, and holds the object of
\* this.renderable exactly when this.renderable is not null.
SceneHoldsTheRenderable ==
  /\ Cardinality(vscene) <= 1
  /\ vrenderable # Null => vscene = {vrenderable.id}
  /\ vrenderable = Null => vscene = {}

\* The renderables the operations before place k of `ops` disposed of.
DisposedBefore(ops, k) ==
  UNION {ops[i].ids : i \in {j \in 1..(k - 1) : ops[j].op = "dispose"}}

\* In the step taken, whatever is added to the scene is added after every
\* renderable the scene held has been removed from it and then disposed of.
ReplacedInOrder ==
  \A k \in DOMAIN vops' :
    vops'[k].op = "add" =>
      \A old \in vscene :
        \E i, j \in 1..(k - 1) :
          /\ i < j
          /\ vops'[i] = Op("remove", {old})
          /\ vops'[j] = Op("dispose", {old})

\* In the step taken, no renderable disposed of, before the step or earlier
\* in it, is rendered or drawn by a frame or given splat parameters.
DisposedIsLeftAlone ==
  \A k \in DOMAIN vops' :
    vops'[k].op \in {"render", "draw", "setSplatParams"} =>
      vops'[k].ids \cap (vdisposed \cup DisposedBefore(vops', k)) = {}

\* C24: after any handlers and frames the scene holds at most one
\* renderable's object, the object of this.renderable exactly when that is
\* not null; a renderable is removed from the scene and disposed of before
\* its replacement is added; and no frame renders, and no setSplatParams
\* reaches, a renderable that has been disposed of.
C24_OneLiveRenderable ==
  /\ []SceneHoldsTheRenderable
  /\ [][ReplacedInOrder /\ DisposedIsLeftAlone]_vars

\* C24 happens: two renderables have been replaced, the second by a splat
\* renderable that a slider then passed its setting to, and a frame renders
\* the one in the scene.
C24_Witness ==
  /\ vlast.handler = "animate"
  /\ Cardinality(vdisposed) = 2
  /\ vrenderable # Null
  /\ vrenderable.uniforms # Null
  /\ vrenderable.uniforms.uSigmaScale = 200
  /\ vops = <<Op("render", {vrenderable.id}), Op("draw", {vrenderable.id})>>

(***************************************************************************)
(* The specifications.  Each takes the steps of one subsystem and leaves   *)
(* the variables of the others at their idle values.                       *)
(***************************************************************************)
Init == IdleParse /\ IdleSanitize /\ IdleDetect /\ IdleResolve /\ IdleRoundTrip /\ IdleHalf /\ IdleViewer /\ IdleLoader
Next == ParseBegin \/ ParseEntry \/ ParseReturn
Spec == Init /\ [][Next]_vars

SanitizeInit == IdleParse /\ IdleSanitize /\ IdleDetect /\ IdleResolve /\ IdleRoundTrip /\ IdleHalf /\ IdleViewer /\ IdleLoader
SanitizeNext == SanitizeCall \/ SanitizeStep \/ SanitizeReturn
SpecSanitize == SanitizeInit /\ [][SanitizeNext]_vars /\ WF_vars(SanitizeNext)

DetectInit == IdleParse /\ IdleSanitize /\ InitDetect /\ IdleResolve /\ IdleRoundTrip /\ IdleHalf /\ IdleViewer /\ IdleLoader
DetectNext == Detect
SpecDetect == DetectInit /\ [][DetectNext]_vars

ResolveInit == IdleParse /\ IdleSanitize /\ IdleDetect /\ InitResolve /\ IdleRoundTrip /\ IdleHalf /\ IdleViewer /\ IdleLoader
ResolveNext == Resolve
SpecResolve == ResolveInit /\ [][ResolveNext]_vars

RoundTripInit == IdleParse /\ IdleSanitize /\ IdleDetect /\ IdleResolve /\ InitRoundTrip /\ IdleHalf /\ IdleViewer /\ IdleLoader
RoundTripNext == EncodeTensors \/ ParseEncoded
SpecRoundTrip == RoundTripInit /\ [][RoundTripNext]_vars

HalfInit == IdleParse /\ IdleSanitize /\ IdleDetect /\ IdleResolve /\ IdleRoundTrip /\ InitHalf /\ IdleViewer /\ IdleLoader
HalfNext == DecodeHalf
SpecHalf == HalfInit /\ [][HalfNext]_vars

ViewerInit == IdleParse /\ IdleSanitize /\ IdleDetect /\ IdleResolve /\ IdleRoundTrip /\ IdleHalf /\ IdleViewer /\ IdleLoader
ViewerNext ==
  \/ ChangeRenderMode \/ InputSplatSetting
  \/ LoadFileBegin \/ LoadFileFails \/ LoadFileUnresolved \/ LoadFileResolves
  \/ Animate
SpecViewer == ViewerInit /\ [][ViewerNext]_vars

LoaderInit == IdleParse /\ IdleSanitize /\ IdleDetect /\ IdleResolve /\ IdleRoundTrip /\ IdleHalf /\ IdleViewer /\ InitLoader
LoaderNext == LoaderParse
SpecLoader == LoaderInit /\ [][LoaderNext]_vars

====
